---- MODULE Spec2Model ----
(***************************************************************************)
(* Model of the Cortex schema transformer (removeUnsupportedFeatures) and  *)
(* of the prompt-engineered structured-output generator.                   *)
(*                                                                         *)
(* JavaScript objects live on a heap (a sequence of nodes, the index is    *)
(* the object's identity).  A node is a function from its own keys to      *)
(* values.  A slot that holds a sub-schema holds NullV (JSON null), PrimV  *)
(* (the number 123) or the address of an object.  A type is the record     *)
(* [arr, ts]: arr says whether it is written as an array.  A description   *)
(* is a sequence of text fragments; clauses built from constraints are     *)
(* fragments.  properties is a sequence of [k, v] entries in insertion     *)
(* order.                                                                  *)
(***************************************************************************)
EXTENDS Integers, Sequences, FiniteSets, TLC

VARIABLES variant, heap, cache, held, nBuilt, nCalls, pre, preCache, last, gen, nGen,
          input, output, cli, cm, proc, walk

vars == <<variant, heap, cache, held, nBuilt, nCalls, pre, preCache, last, gen, nGen,
          input, output, cli,
                 cm, proc, walk>>

\* ---------------------------------------------------------------- bounds
MaxBuilt == 3
MaxCalls == 2

\* ------------------------------------------------------- JSON values
NullV == 0
PrimV == 0 - 1

Range(s) == {s[i] : i \in DOMAIN s}

Has(n, k) == k \in DOMAIN n
Put(n, k, v) == [x \in (DOMAIN n) \cup {k} |-> IF x = k THEN v ELSE n[x]]
Del(n, K) == [x \in (DOMAIN n) \ K |-> n[x]]
\* Object.assign(target, source): the source's own keys win
Assign(n, m) == [x \in (DOMAIN n) \cup (DOMAIN m) |-> IF x \in DOMAIN m THEN m[x] ELSE n[x]]

Scalar(t) == [arr |-> FALSE, ts |-> <<t>>]
TypeArr(s) == [arr |-> TRUE, ts |-> s]

NumStr(n) ==
  CASE n = 0 -> "0" [] n = 1 -> "1" [] n = 2 -> "2" [] n = 3 -> "3" [] n = 4 -> "4"
    [] n = 5 -> "5" [] n = 6 -> "6" [] n = 7 -> "7" [] n = 8 -> "8" [] n = 9 -> "9"
    [] OTHER -> "n"

\* ------------------------------------------------ the two source variants
\* "pkg": packages/ai-sdk-provider-cortex-code/src/schema/transformer.ts
\* "alt": the near-identical copy (unnamed/part_003)
Variants == {"pkg", "alt"}

UNSUPPORTED_KEYWORDS_pkg ==
  {"default", "$schema", "multipleOf", "minimum", "maximum", "exclusiveMinimum",
   "exclusiveMaximum", "minLength", "maxLength", "format", "uniqueItems", "contains",
   "minContains", "maxContains", "minItems", "maxItems", "patternProperties",
   "minProperties", "maxProperties", "propertyNames"}

UNSUPPORTED_KEYWORDS_alt == UNSUPPORTED_KEYWORDS_pkg \cup {"pattern"}

UNSUPPORTED_KEYWORDS(var) ==
  IF var = "pkg" THEN UNSUPPORTED_KEYWORDS_pkg ELSE UNSUPPORTED_KEYWORDS_alt

\* ----------------------------------------- buildConstraintDescription
\* A text is a sequence of fragments; a clause is a short text.
Num(s, k) == IF Has(s, k) THEN NumStr(s[k]) ELSE "undefined"

\* one group: "lo-hi unit" / "minimum lo unit" / "maximum hi unit"
PairClause(s, lo, hi, both, onlyLo, onlyHi) ==
  IF Has(s, lo) /\ Has(s, hi) THEN <<both>>
  ELSE IF Has(s, lo) THEN <<onlyLo>>
  ELSE IF Has(s, hi) THEN <<onlyHi>>
  ELSE <<>>

RECURSIVE Join(_, _)
Join(cs, sep) ==
  IF Len(cs) = 0 THEN <<>>
  ELSE IF Len(cs) = 1 THEN cs[1]
  ELSE cs[1] \o <<sep>> \o Join(Tail(cs), sep)

Constraints(var, s) ==
  PairClause(s, "minLength", "maxLength",
      <<Num(s, "minLength"), "-", Num(s, "maxLength"), " characters">>,
      <<"minimum ", Num(s, "minLength"), " characters">>,
      <<"maximum ", Num(s, "maxLength"), " characters">>)
  \o (IF Has(s, "format") /\ s["format"] # "" THEN << <<"format: ", s["format"]>> >> ELSE <<>>)
  \o (IF var = "alt" /\ Has(s, "pattern") /\ s["pattern"] # ""
        THEN << <<"pattern: ", s["pattern"]>> >> ELSE <<>>)
  \o PairClause(s, "minimum", "maximum",
      <<"range: ", Num(s, "minimum"), "-", Num(s, "maximum")>>,
      <<"minimum: ", Num(s, "minimum")>>,
      <<"maximum: ", Num(s, "maximum")>>)
  \o (IF Has(s, "exclusiveMinimum") THEN << <<"> ", Num(s, "exclusiveMinimum")>> >> ELSE <<>>)
  \o (IF Has(s, "exclusiveMaximum") THEN << <<"< ", Num(s, "exclusiveMaximum")>> >> ELSE <<>>)
  \o (IF Has(s, "multipleOf") THEN << <<"multiple of ", Num(s, "multipleOf")>> >> ELSE <<>>)
  \o PairClause(s, "minItems", "maxItems",
      <<Num(s, "minItems"), "-", Num(s, "maxItems"), " items">>,
      <<"minimum ", Num(s, "minItems"), " items">>,
      <<"maximum ", Num(s, "maxItems"), " items">>)
  \o (IF Has(s, "uniqueItems") /\ s["uniqueItems"] THEN << <<"unique items">> >> ELSE <<>>)
  \o PairClause(s, "minProperties", "maxProperties",
      <<Num(s, "minProperties"), "-", Num(s, "maxProperties"), " properties">>,
      <<"minimum ", Num(s, "minProperties"), " properties">>,
      <<"maximum ", Num(s, "maxProperties"), " properties">>)

\* the suffix " (clause, clause)", or the empty text
buildConstraintDescription(var, s) ==
  LET cs == Constraints(var, s)
  IN IF Len(cs) > 0 THEN <<" (">> \o Join(cs, ", ") \o <<")">> ELSE <<>>

\* String.prototype.includes on texts
Includes(text, part) ==
  \E i \in 0..(Len(text) - Len(part)) : SubSeq(text, i + 1, i + Len(part)) = part

\* --------------------------------------------- removeUnsupportedFeatures
\* The state threaded through one call: the heap, the WeakMap _schemaCache,
\* whether a TypeError has been thrown, and the result value.
Ret(h, c, t, r) == [heap |-> h, cache |-> c, threw |-> t, res |-> r]
Throw(st) == Ret(st.heap, st.cache, TRUE, NullV)

IsObj(v) == v > 0

\* item.type === 'null' || (Array.isArray(item.type) && item.type.includes('null'))
IsNullTyped(h, v) ==
  /\ IsObj(v)
  /\ Has(h[v], "type")
  /\ "null" \in Range(h[v]["type"].ts)

IsType(n, t) == Has(n, "type") /\ n["type"] = Scalar(t)

Keys(props) == [i \in DOMAIN props |-> props[i].k]

\* processedValue._isOptional, read from the heap at the time of the test
MarkedOptional(h, v) == IsObj(v) /\ Has(h[v], "_isOptional") /\ h[v]["_isOptional"]

\* delete processedValue._isOptional
StripMarker(h, v) == [h EXCEPT ![v] = Del(h[v], {"_isOptional"})]

\* what an object literal inherits from Object.prototype
ObjectPrototypeKeys ==
  {"constructor", "hasOwnProperty", "isPrototypeOf", "propertyIsEnumerable",
   "toLocaleString", "toString", "valueOf", "__proto__"}

\* key in cleanedProps, where cleanedProps was created as {}: the operator in
\* finds own and inherited keys
In(key, cleanedProps) ==
  key \in Range(Keys(cleanedProps)) \/ key \in ObjectPrototypeKeys

\* the recomputation of required for an object node that has properties
RequiredOf(n, cleanedProps, optionalFields) ==
  IF ~Has(n, "required") \/ Len(n["required"]) = 0
    THEN SelectSeq(Keys(cleanedProps), LAMBDA k : k \notin optionalFields)
    ELSE SelectSeq(n["required"],
                   LAMBDA k : In(k, cleanedProps) /\ k \notin optionalFields)

\* the branch taken by an object node that has no properties
NoPropertiesRequired(var, n) ==
  IF var = "alt" /\ ~Has(n, "required") THEN Put(n, "required", <<>>) ELSE n

\* cleaned.description = cleaned.description + constraintDesc
WithConstraintDesc(var, schema) ==
  LET constraintDesc == buildConstraintDescription(var, schema)
  IN IF /\ Len(constraintDesc) > 0
        /\ Has(schema, "description")
        /\ Len(schema["description"]) > 0
        /\ ~Includes(schema["description"], constraintDesc)
       THEN Put(schema, "description", schema["description"] \o constraintDesc)
       ELSE schema

\* UNSUPPORTED_KEYWORDS.forEach((keyword) => delete cleaned[keyword])
RemoveKeywords(var, n) == Del(n, UNSUPPORTED_KEYWORDS(var))

\* the type: [<any-type>, "null"] step
FlattenTypeArray(n) ==
  IF Has(n, "type") /\ n["type"].arr /\ "null" \in Range(n["type"].ts)
    THEN LET nonNullTypes == SelectSeq(n["type"].ts, LAMBDA t : t # "null")
         IN IF Len(nonNullTypes) = 1
              THEN Put(Put(n, "type", Scalar(nonNullTypes[1])), "_isOptional", TRUE)
            ELSE IF Len(nonNullTypes) > 1
              THEN Put(Put(n, "type", TypeArr(nonNullTypes)), "_isOptional", TRUE)
            ELSE n
    ELSE n

RECURSIVE removeUnsupportedFeatures(_, _, _)
RECURSIVE CleanEach(_, _, _, _, _)
RECURSIVE CleanProps(_, _, _, _, _, _)

\* items.map((item) => removeUnsupportedFeatures(item)), left to right
\* res is the sequence of results
CleanEach(var, st, items, i, out) ==
  IF st.threw THEN Throw(st)
  ELSE IF i > Len(items) THEN Ret(st.heap, st.cache, FALSE, out)
  ELSE LET r == removeUnsupportedFeatures(var, st, items[i])
       IN CleanEach(var, r, items, i + 1, Append(out, r.res))

\* the loop over Object.entries(cleaned.properties)
\* res is [props |-> cleanedProps, opt |-> optionalFields]
CleanProps(var, st, props, i, out, opt) ==
  IF st.threw THEN Throw(st)
  ELSE IF i > Len(props) THEN Ret(st.heap, st.cache, FALSE, [props |-> out, opt |-> opt])
  ELSE LET r == removeUnsupportedFeatures(var, st, props[i].v)
           processedValue == r.res
           entry == [k |-> props[i].k, v |-> processedValue]
       IN IF r.threw THEN Throw(r)
          ELSE IF processedValue = NullV THEN Throw(r)   \* null._isOptional
          ELSE IF MarkedOptional(r.heap, processedValue)
            THEN CleanProps(var, Ret(StripMarker(r.heap, processedValue), r.cache, FALSE, NullV),
                            props, i + 1, Append(out, entry), opt \cup {props[i].k})
            ELSE CleanProps(var, r, props, i + 1, Append(out, entry), opt)

\* Handle anyOf with null: the context is [heap, cache, threw, res |-> cleaned]
StepAnyOf(var, cx) ==
  IF cx.threw \/ ~Has(cx.res, "anyOf") THEN cx
  ELSE LET alts == cx.res["anyOf"]
           nonNullTypes == SelectSeq(alts, LAMBDA v : ~IsNullTyped(cx.heap, v))
       IN IF NullV \in Range(alts) THEN Throw(cx)     \* null.type
          ELSE IF Len(nonNullTypes) = 1
            THEN LET merged == IF IsObj(nonNullTypes[1])
                                 THEN Assign(cx.res, cx.heap[nonNullTypes[1]])
                                 ELSE cx.res
                 IN Ret(cx.heap, cx.cache, FALSE,
                        Put(Del(merged, {"anyOf"}), "_isOptional", TRUE))
          ELSE IF Len(nonNullTypes) > 1
            THEN LET r == CleanEach(var, cx, nonNullTypes, 1, <<>>)
                 IN IF r.threw THEN Throw(r)
                    ELSE Ret(r.heap, r.cache, FALSE, Put(cx.res, "anyOf", r.res))
          ELSE cx

StepType(cx) ==
  IF cx.threw THEN cx ELSE Ret(cx.heap, cx.cache, FALSE, FlattenTypeArray(cx.res))

\* Normalize objects
StepObject(var, cx) ==
  IF cx.threw \/ ~IsType(cx.res, "object") THEN cx
  ELSE LET closed == Put(cx.res, "additionalProperties", FALSE)
       IN IF Has(closed, "properties")
            THEN LET r == CleanProps(var, cx, closed["properties"], 1, <<>>, {})
                 IN IF r.threw THEN Throw(r)
                    ELSE Ret(r.heap, r.cache, FALSE,
                             Put(Put(closed, "properties", r.res.props),
                                 "required", RequiredOf(closed, r.res.props, r.res.opt)))
            ELSE Ret(cx.heap, cx.cache, FALSE, NoPropertiesRequired(var, closed))

\* Handle arrays
StepArray(var, cx) ==
  IF cx.threw \/ ~IsType(cx.res, "array") \/ ~Has(cx.res, "items") THEN cx
  ELSE IF cx.res["items"] = NullV THEN cx
  ELSE LET r == removeUnsupportedFeatures(var, cx, cx.res["items"])
       IN IF r.threw THEN Throw(r)
          ELSE Ret(r.heap, r.cache, FALSE, Put(cx.res, "items", r.res))

\* Handle oneOf
StepOneOf(var, cx) ==
  IF cx.threw \/ ~Has(cx.res, "oneOf") THEN cx
  ELSE LET r == CleanEach(var, cx, cx.res["oneOf"], 1, <<>>)
       IN IF r.threw THEN Throw(r)
          ELSE Ret(r.heap, r.cache, FALSE, Put(cx.res, "oneOf", r.res))

\* _schemaCache.set(schema, cleaned); return cleaned
\* (the object cleaned gets its identity here: nothing can reach it earlier)
Store(cx, schema) ==
  IF cx.threw THEN Throw(cx)
  ELSE LET addr == Len(cx.heap) + 1
       IN Ret(Append(cx.heap, cx.res),
              [x \in (DOMAIN cx.cache) \cup {schema} |->
                  IF x = schema THEN addr ELSE cx.cache[x]],
              FALSE, addr)

\* removeUnsupportedFeatures without the look-up in the cache
removeUnsupportedFeatures_NoLookup(var, st, schema) ==
  IF ~IsObj(schema) THEN Ret(st.heap, st.cache, st.threw, schema)
  ELSE LET cleaned == RemoveKeywords(var, WithConstraintDesc(var, st.heap[schema]))
           cx0 == Ret(st.heap, st.cache, st.threw, cleaned)
       IN Store(StepOneOf(var, StepArray(var, StepObject(var, StepType(StepAnyOf(var, cx0))))),
                schema)

removeUnsupportedFeatures(var, st, schema) ==
  IF ~IsObj(schema) THEN Ret(st.heap, st.cache, st.threw, schema)
  ELSE IF schema \in DOMAIN st.cache THEN Ret(st.heap, st.cache, st.threw, st.cache[schema])
  ELSE LET cleaned == RemoveKeywords(var, WithConstraintDesc(var, st.heap[schema]))
           cx0 == Ret(st.heap, st.cache, st.threw, cleaned)
       IN Store(StepOneOf(var, StepArray(var, StepObject(var, StepType(StepAnyOf(var, cx0))))),
                schema)

\* ------------------------------------------------------ schema trees
\* the sub-schema slots of a node
ChildSlots(n) ==
  (IF Has(n, "properties") THEN {n["properties"][i].v : i \in DOMAIN n["properties"]} ELSE {})
  \cup (IF Has(n, "items") THEN {n["items"]} ELSE {})
  \cup (IF Has(n, "anyOf") THEN Range(n["anyOf"]) ELSE {})
  \cup (IF Has(n, "oneOf") THEN Range(n["oneOf"]) ELSE {})

\* the objects of the tree below v
RECURSIVE Reach(_, _)
Reach(h, v) ==
  IF ~IsObj(v) THEN {}
  ELSE {v} \cup UNION {Reach(h, c) : c \in ChildSlots(h[v])}

\* the tree below v as a value (what deep equality compares)
RECURSIVE Deep(_, _)
Deep(h, v) ==
  IF ~IsObj(v) THEN [tag |-> "primitive", val |-> v]
  ELSE [tag |-> "object",
        node |-> [k \in DOMAIN h[v] |->
                    CASE k = "properties" ->
                           [i \in DOMAIN h[v][k] |->
                              [k |-> h[v][k][i].k, v |-> Deep(h, h[v][k][i].v)]]
                      [] k = "items" -> Deep(h, h[v][k])
                      [] k \in {"anyOf", "oneOf"} ->
                           [i \in DOMAIN h[v][k] |-> Deep(h, h[v][k][i])]
                      [] OTHER -> h[v][k]]]

\* ----------------------------------------------------- character texts
\* Model identifiers and model replies are sequences of one-character strings.
StartsWith(text, prefix) ==
  Len(text) >= Len(prefix) /\ SubSeq(text, 1, Len(prefix)) = prefix

\* String.prototype.indexOf: the first position of part in text at or after
\* position from, 0 when there is none
IndexFrom(text, part, from) ==
  LET hits == {i \in from..(Len(text) - Len(part) + 1) :
                 SubSeq(text, i, i + Len(part) - 1) = part}
  IN IF hits = {} THEN 0 ELSE CHOOSE i \in hits : \A j \in hits : i <= j

LowerChar(c) ==
  CASE c = "A" -> "a" [] c = "B" -> "b" [] c = "C" -> "c" [] c = "D" -> "d"
    [] c = "E" -> "e" [] c = "F" -> "f" [] c = "G" -> "g" [] c = "H" -> "h"
    [] c = "I" -> "i" [] c = "J" -> "j" [] c = "K" -> "k" [] c = "L" -> "l"
    [] c = "M" -> "m" [] c = "N" -> "n" [] c = "O" -> "o" [] c = "P" -> "p"
    [] c = "Q" -> "q" [] c = "R" -> "r" [] c = "S" -> "s" [] c = "T" -> "t"
    [] c = "U" -> "u" [] c = "V" -> "v" [] c = "W" -> "w" [] c = "X" -> "x"
    [] c = "Y" -> "y" [] c = "Z" -> "z" [] OTHER -> c

toLowerCase(text) == [i \in DOMAIN text |-> LowerChar(text[i])]

IsSpace(c) == c \in {" ", "\n", "\t", "\r"}

RECURSIVE TrimStart(_)
TrimStart(text) ==
  IF Len(text) > 0 /\ IsSpace(text[1]) THEN TrimStart(Tail(text)) ELSE text

RECURSIVE TrimEnd(_)
TrimEnd(text) ==
  IF Len(text) > 0 /\ IsSpace(text[Len(text)])
    THEN TrimEnd(SubSeq(text, 1, Len(text) - 1)) ELSE text

trim(text) == TrimEnd(TrimStart(text))

\* ------------------------------------------------------- ModelHelpers
CortexPrefix == <<"c", "o", "r", "t", "e", "x", "/">>

\* ------------------------------------------------------ JSON extraction
NotFound == <<>>

\* the brace-matching loop of extractFirstJsonObject from position i on;
\* the position of the closing brace, 0 when the text ends first
\* the brace-matching loop without the in-string flag: every brace counts
RECURSIVE MatchBrace_EveryBrace(_, _, _, _, _)
MatchBrace_EveryBrace(text, i, braceCount, inString, escapeNext) ==
  IF i > Len(text) THEN 0
  ELSE LET char == text[i]
           plain == ~escapeNext /\ char # "\\" /\ char # "\""
           closed == plain /\ char = "}" /\ braceCount - 1 = 0
           count1 == IF plain /\ char = "{" THEN braceCount + 1
                     ELSE IF plain /\ char = "}" THEN braceCount - 1
                     ELSE braceCount
           escapeNext1 == ~escapeNext /\ char = "\\"
       IN IF closed THEN i
          ELSE MatchBrace_EveryBrace(text, i + 1, count1, inString, escapeNext1)

RECURSIVE MatchBrace(_, _, _, _, _)
MatchBrace(text, i, braceCount, inString, escapeNext) ==
  IF i > Len(text) THEN 0
  ELSE LET char == text[i]
           plain == ~escapeNext /\ char # "\\" /\ char # "\"" /\ ~inString
           closed == plain /\ char = "}" /\ braceCount - 1 = 0
           count1 == IF plain /\ char = "{" THEN braceCount + 1
                     ELSE IF plain /\ char = "}" THEN braceCount - 1
                     ELSE braceCount
           inString1 == IF ~escapeNext /\ char = "\"" THEN ~inString ELSE inString
           escapeNext1 == ~escapeNext /\ char = "\\"
       IN IF closed THEN i
          ELSE MatchBrace(text, i + 1, count1, inString1, escapeNext1)

\* extractFirstJsonObject cut at the first closing brace, whatever the depth
\* and the string state
extractFirstJsonObject_FirstClose(text) ==
  LET startIndex == IndexFrom(text, <<"{">>, 1)
  IN IF startIndex = 0 THEN NotFound
     ELSE LET end == IndexFrom(text, <<"}">>, startIndex)
          IN IF end = 0 THEN NotFound ELSE SubSeq(text, startIndex, end)

extractFirstJsonObject(text) ==
  LET startIndex == IndexFrom(text, <<"{">>, 1)
  IN IF startIndex = 0 THEN NotFound
     ELSE LET end == MatchBrace(text, startIndex, 0, FALSE, FALSE)
          IN IF end = 0 THEN NotFound ELSE SubSeq(text, startIndex, end)

\* the backquote character
BT == "bq"

Fence == <<BT, BT, BT>>

RECURSIVE SkipSpaces(_, _)
SkipSpaces(text, i) ==
  IF i <= Len(text) /\ IsSpace(text[i]) THEN SkipSpaces(text, i + 1) ELSE i

\* the group captured by the code-block regex of extractAndParse, as
\* [found, body]: the match opens at the first fence that a later fence closes,
\* skips an optional json tag and white space, and drops one closing newline
CodeBlockMatch(text) ==
  LET open == IndexFrom(text, Fence, 1)
      afterTag == IF /\ open # 0
                       /\ open + 6 <= Len(text)
                       /\ SubSeq(text, open + 3, open + 6) = <<"j", "s", "o", "n">>
                    THEN open + 7 ELSE open + 3
      from == SkipSpaces(text, afterTag)
      close == IF open = 0 THEN 0 ELSE IndexFrom(text, Fence, from)
      last1 == IF close > from /\ text[close - 1] = "\n" THEN close - 2 ELSE close - 1
  IN IF open = 0 \/ close = 0 THEN [found |-> FALSE, body |-> <<>>]
     ELSE [found |-> TRUE, body |-> SubSeq(text, from, last1)]

\* ------------------------------------------------------------ JSON values
\* A JSON value: a number (its digits), a string (its characters), a literal
\* (null, true, false), an array (its elements) or an object (its entries
\* [k, v] in insertion order, keys unique).
JNum(digits) == [t |-> "number", s |-> digits, m |-> <<>>]
JStr(chars) == [t |-> "string", s |-> chars, m |-> <<>>]
JLit(name) == [t |-> name, s |-> <<>>, m |-> <<>>]
JArr(elements) == [t |-> "array", s |-> <<>>, m |-> elements]
JObj(entries) == [t |-> "object", s |-> <<>>, m |-> entries]

\* what a failed parse leaves
Undefined == JLit("undefined")

\* F applied to the value of v
Bind(v, F(_)) == CHOOSE out \in {F(x) : x \in {v}} : TRUE

\* ---------------------------------------------- ModelHelpers functions
\* A model identifier is a value of the language: a string (its characters)
\* or something else (a number, null, undefined, true, false, an object).
\* modelId && typeof modelId === 'string'
IsNonEmptyString(modelId) == modelId.t = "string" /\ Len(modelId.s) > 0

\* normalizeModelId that lowercases before it looks for the prefix
normalizeModelId_LowerFirst(modelId) ==
  IF ~IsNonEmptyString(modelId) THEN modelId
  ELSE LET lower == toLowerCase(modelId.s)
       IN [modelId EXCEPT !.s = IF StartsWith(lower, CortexPrefix)
                                  THEN SubSeq(lower, Len(CortexPrefix) + 1, Len(lower))
                                  ELSE lower]

normalizeModelId(modelId) ==
  IF ~IsNonEmptyString(modelId) THEN modelId
  ELSE [modelId EXCEPT !.s = toLowerCase(IF StartsWith(modelId.s, CortexPrefix)
                                           THEN SubSeq(modelId.s, Len(CortexPrefix) + 1,
                                                       Len(modelId.s))
                                           ELSE modelId.s)]

\* supportsStructuredOutputs that looks for the names as they are written
supportsStructuredOutputs_CaseSensitive(modelId) ==
  IF ~IsNonEmptyString(modelId) THEN FALSE
  ELSE \/ Includes(modelId.s, <<"o", "p", "e", "n", "a", "i">>)
       \/ Includes(modelId.s, <<"c", "l", "a", "u", "d", "e">>)
       \/ Includes(modelId.s, <<"g", "p", "t", "-">>)

supportsStructuredOutputs(modelId) ==
  IF ~IsNonEmptyString(modelId) THEN FALSE
  ELSE LET normalized == toLowerCase(modelId.s)
       IN \/ Includes(normalized, <<"o", "p", "e", "n", "a", "i">>)
          \/ Includes(normalized, <<"c", "l", "a", "u", "d", "e">>)
          \/ Includes(normalized, <<"g", "p", "t", "-">>)

\* obj[key] = value on an object under construction: a repeated key keeps its
\* place and takes the later value
SetEntry(entries, key, value) ==
  IF \E i \in DOMAIN entries : entries[i].k = key
    THEN [i \in DOMAIN entries |->
            IF entries[i].k = key THEN [k |-> key, v |-> value] ELSE entries[i]]
    ELSE Append(entries, [k |-> key, v |-> value])

\* JSON.stringify of a string: quotes, with the escapes of the quote, the
\* backslash, the newline and the tab
RECURSIVE QuoteChars(_)
QuoteChars(chars) ==
  IF Len(chars) = 0 THEN <<>>
  ELSE (CASE chars[1] = "\"" -> <<"\\", "\"">>
          [] chars[1] = "\\" -> <<"\\", "\\">>
          [] chars[1] = "\n" -> <<"\\", "n">>
          [] chars[1] = "\t" -> <<"\\", "t">>
          [] OTHER -> <<chars[1]>>) \o QuoteChars(Tail(chars))

StringifyString(chars) == <<"\"">> \o QuoteChars(chars) \o <<"\"">>

\* JSON.stringify(value) without indentation
RECURSIVE JSONstringify(_)
RECURSIVE StringifyList(_, _)
StringifyList(items, isObject) ==
  IF Len(items) = 0 THEN <<>>
  ELSE (IF isObject
          THEN StringifyString(items[1].k) \o <<":">> \o JSONstringify(items[1].v)
          ELSE JSONstringify(items[1]))
       \o (IF Len(items) > 1 THEN <<",">> ELSE <<>>)
       \o StringifyList(Tail(items), isObject)

JSONstringify(value) ==
  CASE value.t = "number" -> value.s
    [] value.t = "string" -> StringifyString(value.s)
    [] value.t = "array" -> <<"[">> \o StringifyList(value.m, FALSE) \o <<"]">>
    [] value.t = "object" -> <<"{">> \o StringifyList(value.m, TRUE) \o <<"}">>
    [] value.t = "null" -> <<"n", "u", "l", "l">>
    [] value.t = "true" -> <<"t", "r", "u", "e">>
    [] value.t = "false" -> <<"f", "a", "l", "s", "e">>

\* JSON.parse: a recursive-descent parser of the JSON grammar.  A step
\* returns [ok, val, next]: whether it matched, the value, and the position
\* after it.  Numbers are unsigned integers and the escapes are those of the
\* quote, the backslash, the slash, the newline and the tab: the texts of the
\* model hold no sign, fraction, exponent or other escape.
Digits == {"0", "1", "2", "3", "4", "5", "6", "7", "8", "9"}

Parsed(val, next) == [ok |-> TRUE, val |-> val, next |-> next]
NoParse == [ok |-> FALSE, val |-> Undefined, next |-> 0]

CharAt(text, i) == IF i >= 1 /\ i <= Len(text) THEN text[i] ELSE "EOF"

\* the characters of a string literal from position i (after the opening quote)
RECURSIVE ParseStringBody(_, _, _)
ParseStringBody(text, i, acc) ==
  LET c == CharAt(text, i)
      e == CharAt(text, i + 1)
  IN IF c = "EOF" \/ c = "\n" \/ c = "\t" THEN NoParse
     ELSE IF c = "\"" THEN Parsed(JStr(acc), i + 1)
     ELSE IF c = "\\"
       THEN (IF e \in {"\"", "\\", "/"} THEN ParseStringBody(text, i + 2, Append(acc, e))
             ELSE IF e = "n" THEN ParseStringBody(text, i + 2, Append(acc, "\n"))
             ELSE IF e = "t" THEN ParseStringBody(text, i + 2, Append(acc, "\t"))
             ELSE NoParse)
     ELSE ParseStringBody(text, i + 1, Append(acc, c))

\* the position after the digits that start at i
RECURSIVE SkipDigits(_, _)
SkipDigits(text, i) ==
  IF CharAt(text, i) \in Digits THEN SkipDigits(text, i + 1) ELSE i

ParseNumber(text, i) ==
  LET end == IF text[i] = "0" THEN i + 1 ELSE SkipDigits(text, i)
  IN Parsed(JNum(SubSeq(text, i, end - 1)), end)

ParseLiteral(text, i, name, chars) ==
  IF SubSeq(text, i, i + Len(chars) - 1) = chars /\ i + Len(chars) - 1 <= Len(text)
    THEN Parsed(JLit(name), i + Len(chars))
    ELSE NoParse

RECURSIVE ParseValue(_, _)
RECURSIVE ParseMembers(_, _, _)
RECURSIVE ParseElements(_, _, _)

\* the members of an object from position i, where a key must start
ParseMembers(text, i, acc) ==
  IF CharAt(text, i) # "\"" THEN NoParse
  ELSE Bind(ParseStringBody(text, i + 1, <<>>), LAMBDA key :
    IF ~key.ok \/ CharAt(text, SkipSpaces(text, key.next)) # ":" THEN NoParse
    ELSE Bind(ParseValue(text, SkipSpaces(text, key.next) + 1), LAMBDA member :
      IF ~member.ok THEN NoParse
      ELSE Bind(SkipSpaces(text, member.next), LAMBDA j :
        IF CharAt(text, j) = "}"
          THEN Parsed(JObj(SetEntry(acc, key.val.s, member.val)), j + 1)
        ELSE IF CharAt(text, j) = ","
          THEN ParseMembers(text, SkipSpaces(text, j + 1),
                            SetEntry(acc, key.val.s, member.val))
        ELSE NoParse)))

\* the elements of an array from position i, where a value must start
ParseElements(text, i, acc) ==
  Bind(ParseValue(text, i), LAMBDA element :
    IF ~element.ok THEN NoParse
    ELSE Bind(SkipSpaces(text, element.next), LAMBDA j :
      IF CharAt(text, j) = "]" THEN Parsed(JArr(Append(acc, element.val)), j + 1)
      ELSE IF CharAt(text, j) = ","
        THEN ParseElements(text, j + 1, Append(acc, element.val))
      ELSE NoParse))

ParseValue(text, i0) ==
  Bind(SkipSpaces(text, i0), LAMBDA i :
    LET c == CharAt(text, i)
        j == SkipSpaces(text, i + 1)
    IN IF c = "{"
         THEN (IF CharAt(text, j) = "}" THEN Parsed(JObj(<<>>), j + 1)
               ELSE ParseMembers(text, j, <<>>))
       ELSE IF c = "["
         THEN (IF CharAt(text, j) = "]" THEN Parsed(JArr(<<>>), j + 1)
               ELSE ParseElements(text, j, <<>>))
       ELSE IF c = "\"" THEN ParseStringBody(text, i + 1, <<>>)
       ELSE IF c \in Digits THEN ParseNumber(text, i)
       ELSE IF c = "n" THEN ParseLiteral(text, i, "null", <<"n", "u", "l", "l">>)
       ELSE IF c = "t" THEN ParseLiteral(text, i, "true", <<"t", "r", "u", "e">>)
       ELSE IF c = "f" THEN ParseLiteral(text, i, "false", <<"f", "a", "l", "s", "e">>)
       ELSE NoParse)

\* [ok, value]: ok is false where JSON.parse throws a SyntaxError
JSONparse(text) ==
  Bind(ParseValue(text, 1), LAMBDA r :
    IF r.ok /\ SkipSpaces(text, r.next) = Len(text) + 1
      THEN [ok |-> TRUE, value |-> r.val]
      ELSE [ok |-> FALSE, value |-> Undefined])

Letters ==
  {"a", "b", "c", "d", "e", "f", "g", "h", "i", "j", "k", "l", "m", "n", "o", "p", "q",
   "r", "s", "t", "u", "v", "w", "x", "y", "z", "A", "B", "C", "D", "E", "F", "G", "H",
   "I", "J", "K", "L", "M", "N", "O", "P", "Q", "R", "S", "T", "U", "V", "W", "X", "Y", "Z"}

\* the class of word characters of a regular expression
IsWordChar(c) == c \in Letters \cup Digits \cup {"_"}

\* the repair pass of parseWithFallback (a global regex replace): every maximal
\* run of word characters that a colon follows is put in double quotes
RECURSIVE QuoteKeys(_, _, _, _)
QuoteKeys(text, i, run, out) ==
  IF i > Len(text) THEN out \o run
  ELSE LET char == text[i]
           word == IsWordChar(char)
           run1 == IF word THEN Append(run, char) ELSE <<>>
           out1 == IF word THEN out
                   ELSE IF char = ":" /\ Len(run) > 0
                     THEN out \o <<"\"">> \o run \o <<"\"", ":">>
                   ELSE out \o run \o <<char>>
       IN QuoteKeys(text, i + 1, run1, out1)

\* text.substring(0, limit)
Truncated(text, limit) == SubSeq(text, 1, IF Len(text) < limit THEN Len(text) ELSE limit)

ParseErrorPrefixLimit == 300
ExtractionErrorPrefixLimit == 500

\* [ok, value, error, detail]: detail is the part of the text the error
\* message carries
parseWithFallback(jsonText) ==
  LET first == JSONparse(jsonText)
      second == JSONparse(QuoteKeys(jsonText, 1, <<>>, <<>>))
  IN IF first.ok
       THEN [ok |-> TRUE, value |-> first.value, error |-> "none", detail |-> <<>>]
     ELSE IF second.ok
       THEN [ok |-> TRUE, value |-> second.value, error |-> "none", detail |-> <<>>]
     ELSE [ok |-> FALSE, value |-> Undefined, error |-> "Failed to parse JSON response",
           detail |-> Truncated(jsonText, ParseErrorPrefixLimit)]

\* extractAndParse with the fenced code block tried first
extractAndParse_BlockFirst(responseText) ==
  LET trimmed == trim(responseText)
      direct == extractFirstJsonObject(trimmed)
      codeBlockMatch == CodeBlockMatch(trimmed)
      inBlock == IF codeBlockMatch.found THEN extractFirstJsonObject(codeBlockMatch.body)
                 ELSE NotFound
      jsonText == IF inBlock # NotFound THEN inBlock ELSE direct
  IN IF jsonText = NotFound
       THEN [ok |-> FALSE, value |-> Undefined,
             error |-> "Could not extract JSON object from response",
             detail |-> Truncated(trimmed, ExtractionErrorPrefixLimit)]
       ELSE parseWithFallback(jsonText)

extractAndParse(responseText) ==
  LET trimmed == trim(responseText)
      direct == extractFirstJsonObject(trimmed)
      codeBlockMatch == CodeBlockMatch(trimmed)
      jsonText == IF direct # NotFound THEN direct
                  ELSE IF codeBlockMatch.found THEN extractFirstJsonObject(codeBlockMatch.body)
                  ELSE NotFound
  IN IF jsonText = NotFound
       THEN [ok |-> FALSE, value |-> Undefined,
             error |-> "Could not extract JSON object from response",
             detail |-> Truncated(trimmed, ExtractionErrorPrefixLimit)]
       ELSE parseWithFallback(jsonText)

\* ------------------------------------------------------ extractStreamJson
\* text.split(sep): the pieces between the separators, empty pieces included
RECURSIVE Split(_, _, _, _)
Split(text, sep, from, pieces) ==
  Bind(IndexFrom(text, <<sep>>, from), LAMBDA next :
    IF next = 0 THEN Append(pieces, SubSeq(text, from, Len(text)))
    ELSE Split(text, sep, next + 1, Append(pieces, SubSeq(text, from, next - 1))))

\* the loop over the lines that gives up at the first line that fails to parse
RECURSIVE StreamLines_StopAtFailure(_, _, _)
StreamLines_StopAtFailure(lines, k, results) ==
  IF k > Len(lines) THEN results
  ELSE Bind(trim(lines[k]), LAMBDA trimmed :
         IF trimmed = <<>> THEN StreamLines_StopAtFailure(lines, k + 1, results)
         ELSE Bind(JSONparse(trimmed), LAMBDA parsed :
                IF parsed.ok
                  THEN StreamLines_StopAtFailure(lines, k + 1, Append(results, parsed.value))
                  ELSE results))

\* the loop over the lines: blank lines and lines that fail to parse are
\* passed over
RECURSIVE StreamLines(_, _, _)
StreamLines(lines, k, results) ==
  IF k > Len(lines) THEN results
  ELSE Bind(trim(lines[k]), LAMBDA trimmed :
         IF trimmed = <<>> THEN StreamLines(lines, k + 1, results)
         ELSE Bind(JSONparse(trimmed), LAMBDA parsed :
                StreamLines(lines, k + 1,
                            IF parsed.ok THEN Append(results, parsed.value) ELSE results)))

\* an absent or empty text gives no results
extractStreamJson(text) ==
  IF Len(text) = 0 THEN <<>>
  ELSE StreamLines(Split(text, "\n", 1, <<>>), 1, <<>>)

\* ------------------------------------------------------ generateObject
\* params: schema (NullV when missing), objectName ("" when empty),
\* generateText (whether the function is supplied), onWarning ("absent", or
\* what the supplied callback does: "returns" or "throws"), modelId (the
\* empty text when absent), messages, maxTokens (0 when absent)

\* the precondition checks without the check of objectName
ValidateParams_NoNameCheck(params) ==
  IF params.schema = NullV THEN "Schema is required for object generation"
  ELSE IF ~params.generateText THEN "generateText function is required"
  ELSE "none"

\* the three precondition checks, in order
ValidateParams(params) ==
  IF params.schema = NullV THEN "Schema is required for object generation"
  ELSE IF params.objectName = "" THEN "Object name is required for object generation"
  ELSE IF ~params.generateText THEN "generateText function is required"
  ELSE "none"

\* the number of times the warning path invokes onWarning
WarningCalls(params) ==
  IF Len(params.modelId) > 0
    THEN IF ~supportsStructuredOutputs(normalizeModelId(JStr(params.modelId)))
           THEN (IF params.onWarning # "absent" THEN 1 ELSE 0)
           ELSE 0
    ELSE 0

\* the warning path is left by an exception of the callback (nothing catches it)
WarningThrows(params) == WarningCalls(params) = 1 /\ params.onWarning = "throws"

\* buildSystemPrompt: the prompt is determined by the name and by the JSON text
\* of the schema, which is determined by its tree
buildSystemPrompt(schemaTree, objectName) == [for |-> objectName, schema |-> schemaTree]

\* prepareMessages with the system message put after the messages of the caller
prepareMessages_SystemLast(params, heap0, cache0) ==
  CHOOSE out \in
    { IF cleanedSchema.threw
        THEN Ret(cleanedSchema.heap, cleanedSchema.cache, TRUE, <<>>)
        ELSE Ret(cleanedSchema.heap, cleanedSchema.cache, FALSE,
                 params.messages \o
                   <<[role |-> "system",
                      content |-> buildSystemPrompt(Deep(cleanedSchema.heap, cleanedSchema.res),
                                                    params.objectName)]>>)
      : cleanedSchema \in {removeUnsupportedFeatures("pkg", Ret(heap0, cache0, FALSE, NullV),
                                                     params.schema)} } : TRUE

\* prepareMessages: [heap, cache, threw, res |-> the message list];
\* cleanedSchema is the outcome of the one call of removeUnsupportedFeatures
prepareMessages(params, heap0, cache0) ==
  CHOOSE out \in
    { IF cleanedSchema.threw
        THEN Ret(cleanedSchema.heap, cleanedSchema.cache, TRUE, <<>>)
        ELSE Ret(cleanedSchema.heap, cleanedSchema.cache, FALSE,
                 <<[role |-> "system",
                    content |-> buildSystemPrompt(Deep(cleanedSchema.heap, cleanedSchema.res),
                                                  params.objectName)]>>
                   \o params.messages)
      : cleanedSchema \in {removeUnsupportedFeatures("pkg", Ret(heap0, cache0, FALSE, NullV),
                                                     params.schema)} } : TRUE

EffectiveMaxTokens(params) == IF params.maxTokens = 0 THEN 2048 ELSE params.maxTokens

\* generateObject from the call up to its await on generateText
GenStart(params, heapIn, cacheIn) ==
  LET invalid == ValidateParams(params)
      warned == WarningCalls(params)
      m == prepareMessages(params, heapIn, cacheIn)
  IN IF invalid # "none"
       THEN [pc |-> "rejected", error |-> invalid, textCalls |-> 0, warnCalls |-> 0,
             sent |-> <<>>, sentMaxTokens |-> 0, heap |-> heapIn, cache |-> cacheIn]
     ELSE IF WarningThrows(params)
       THEN [pc |-> "rejected", error |-> "onWarning failed", textCalls |-> 0,
             warnCalls |-> warned, sent |-> <<>>, sentMaxTokens |-> 0,
             heap |-> heapIn, cache |-> cacheIn]
     ELSE IF m.threw
       THEN [pc |-> "rejected", error |-> "TypeError", textCalls |-> 0, warnCalls |-> warned,
             sent |-> <<>>, sentMaxTokens |-> 0, heap |-> m.heap, cache |-> m.cache]
     ELSE [pc |-> "awaiting", error |-> "none", textCalls |-> 1, warnCalls |-> warned,
           sent |-> m.res, sentMaxTokens |-> EffectiveMaxTokens(params),
           heap |-> m.heap, cache |-> m.cache]

\* an omitted field of the text-generation result
Omitted == "undefined"

\* textResult.usage?.<field> || 0; usage is [present, fields]: whether the
\* reply has a usage object, and that object as a function from the fields it
\* has to numbers
UsageField(textResult, field) ==
  IF ~textResult.usage.present THEN 0
  ELSE IF field \in DOMAIN textResult.usage.fields THEN textResult.usage.fields[field]
  ELSE 0

\* generateObject from the resolution of generateText to its return;
\* textResult: text, finishReason (Omitted when omitted) and usage
GenFinish(textResult) ==
  LET parsed == extractAndParse(textResult.text)
  IN IF ~parsed.ok
       THEN [pc |-> "rejected", error |-> parsed.error, result |-> [none |-> ""]]
       ELSE [pc |-> "resolved", error |-> "none",
             result |-> [object |-> parsed.value,
                         finishReason |-> IF textResult.finishReason \in {Omitted, ""}
                                            THEN "stop"
                                          ELSE textResult.finishReason,
                         usage |-> [promptTokens |-> UsageField(textResult, "promptTokens"),
                                    completionTokens |->
                                      UsageField(textResult, "completionTokens")]]]

\* ------------------------------------------------ the caller's schemas
\* A schema literal the caller evaluates; c1 and c2 are sub-schemas it
\* already holds (or null).  Nested literals are allocated before the node.
D == <<"d">>
Prop(k, v) == [k |-> k, v |-> v]

LeafShapes == {"str", "strnull", "strmin", "objbare"}
UnaryShapes == {"obj1r", "arr", "oneof", "nullable", "union"}
BinaryShapes == {"obj2"}

\* the nodes a literal allocates, the last one being the literal itself;
\* base is the heap size before the literal is evaluated
Literal(shape, c1, c2, base) ==
  CASE shape = "str"     -> << [type |-> Scalar("string")] >>
    [] shape = "strnull" -> << [type |-> TypeArr(<<"string", "null">>)] >>
    [] shape = "strmin"  -> << [type |-> Scalar("string"), minLength |-> 3,
                                pattern |-> "p", description |-> D] >>
    [] shape = "objbare" -> << [type |-> Scalar("object")] >>
    [] shape = "obj1r"   -> << [type |-> Scalar("object"), properties |-> <<Prop("a", c1)>>,
                                required |-> <<"z", "a", "constructor">>] >>
    [] shape = "arr"     -> << [type |-> Scalar("array"), items |-> c1, minItems |-> 1] >>
    [] shape = "oneof"   -> << [oneOf |-> <<c1>>] >>
    [] shape = "nullable" -> << [type |-> Scalar("null")],
                                [anyOf |-> <<c1, base + 1>>] >>
    [] shape = "obj2"    -> << [type |-> Scalar("object"), additionalProperties |-> TRUE,
                                properties |-> <<Prop("a", c1), Prop("b", c2)>>] >>
    [] shape = "union"   -> << [type |-> Scalar("string")],
                                [anyOf |-> <<base + 1, c1>>] >>

\* what the caller can put into a literal: null or an object it holds
Slots == {NullV} \cup held

\* ------------------------------------------------------------ actions
NoCall == [arg |-> NullV, res |-> NullV, threw |-> FALSE]

\* no pure function has been applied
NoOutput == [op |-> "none", res |-> <<>>]

\* lastError = null
NoError == [code |-> "none", isRetryable |-> FALSE, execution |-> 0]

\* doGenerate has not been called
\* no execution of the CLI has settled
NoOutcome == [kind |-> "none", stderr |-> <<>>, exitCode |-> 0, hasText |-> FALSE]

CliIdle ==
  [pc |-> "idle", maxRetries |-> 0, attempt |-> 0, executions |-> 0, lastError |-> NoError,
   failures |-> <<>>, error |-> NoError, delay |-> 0, outcome |-> NoOutcome]

\* the result of no call of the connection manager
NoResult ==
  [op |-> "none", skipped |-> FALSE, valid |-> FALSE, error |-> "none", connection |-> "null",
   threw |-> FALSE]

\* the module state of connection-manager.ts at start-up, with no clock, no
\* configuration files and no caller yet
CmIdle ==
  [cliChecked |-> FALSE, cliAvailable |-> "null", cliVersion |-> "null", connectionCache |-> <<>>,
   now |-> 0, files |-> <<>>, testEnv |-> FALSE, pending |-> {}, checkedAt |-> 0,
   completedSinceClear |-> FALSE, cliRuns |-> 0, discoveries |-> 0, validations |-> 0,
   ops |-> 0, advances |-> 0, result |-> NoResult,
   event |-> [op |-> "none",
              params |-> [skipValidation |-> FALSE, connection |-> "none", apiKey |-> FALSE]]]

\* what a promise of executeCortexCli that has not settled holds
NoValue == [kind |-> "none", stdout |-> <<>>, stderr |-> <<>>, exitCode |-> 0, timeoutMs |-> 0]

\* executeCortexCli has not been called
ProcIdle ==
  [pc |-> "idle", timeout |-> 0, spawned |-> FALSE, timer |-> "none", state |-> "pending",
   value |-> NoValue, stdout |-> <<>>, stderr |-> <<>>, kills |-> 0, closed |-> FALSE,
   errored |-> FALSE, destroyed |-> FALSE, first |-> "none", events |-> 0]

\* no traversal of a schema graph is under way
WalkIdle == [pc |-> "idle", graph |-> <<>>, root |-> 0, stack |-> <<>>, cached |-> {}, calls |-> 0]

GenIdle ==
  [pc |-> "idle", params |-> [none |-> ""], error |-> "none", textCalls |-> 0,
   warnCalls |-> 0, sent |-> <<>>, sentMaxTokens |-> 0, result |-> [none |-> ""],
   reply |-> [none |-> ""]]

Init ==
  /\ variant \in Variants
  /\ heap = <<>>
  /\ cache = <<>>
  /\ held = {}
  /\ nBuilt = 0
  /\ nCalls = 0
  /\ pre = <<>>
  /\ preCache = <<>>
  /\ last = NoCall
  /\ gen = GenIdle
  /\ nGen = 0
  /\ input = <<>>
  /\ output = NoOutput
  /\ cli = CliIdle
  /\ cm = CmIdle
  /\ proc = ProcIdle
  /\ walk = WalkIdle

\* the objects removeUnsupportedFeatures has returned
Results == {cache[k] : k \in DOMAIN cache}

\* A literal that mentions no result of an earlier call could as well have been
\* evaluated before that call (the two steps commute up to the numbering of
\* the objects), so after the first call only literals that mention a result
\* are evaluated.
Build(shape, c1, c2) ==
  /\ nBuilt < MaxBuilt
  /\ nCalls = 0 \/ {c1, c2} \cap Results # {}
  /\ heap' = heap \o Literal(shape, c1, c2, Len(heap))
  /\ held' = held \cup {Len(heap')}
  /\ nBuilt' = nBuilt + 1
  /\ UNCHANGED <<variant, cache, nCalls, pre, preCache, last, gen, nGen, input, output, cli,
                 cm, proc, walk>>

BuildLeaf == \E shape \in LeafShapes : Build(shape, NullV, NullV)

BuildUnary == \E shape \in UnaryShapes : \E c1 \in Slots : Build(shape, c1, NullV)

BuildBinary == \E shape \in BinaryShapes : \E c1 \in Slots : \E c2 \in Slots : Build(shape, c1, c2)

\* one call of removeUnsupportedFeatures by the caller
Clean(schema) ==
  /\ nCalls < MaxCalls
  /\ \E r \in {removeUnsupportedFeatures(variant, Ret(heap, cache, FALSE, NullV), schema)} :
        /\ heap' = r.heap
        /\ cache' = r.cache
        /\ last' = [arg |-> schema, res |-> r.res, threw |-> r.threw]
        /\ held' = IF r.threw \/ ~IsObj(r.res) THEN held ELSE held \cup {r.res}
  /\ pre' = heap
  /\ preCache' = cache
  /\ nCalls' = nCalls + 1
  /\ UNCHANGED <<variant, nBuilt, gen, nGen, input, output, cli,
                 cm, proc, walk>>

CleanObject == \E schema \in held : Clean(schema)

CleanPrimitive == \E schema \in {NullV, PrimV} : Clean(schema)

Next == BuildLeaf \/ BuildUnary \/ BuildBinary \/ CleanObject \/ CleanPrimitive

Spec == Init /\ [][Next]_vars

\* ------------------------------------------- the generator's callers
\* The generator imports ./transformer.js; its callers hold three schemas:
\* a nullable string, an object with that property, an object whose property
\* is null.
GenHeap ==
  Literal("strnull", NullV, NullV, 0) \o Literal("obj1r", 1, NullV, 1)
    \o Literal("obj1r", NullV, NullV, 2)

Ch_claude == <<"c", "o", "r", "t", "e", "x", "/", "C", "l", "a", "u", "d", "e">>
Ch_llama == <<"l", "l", "a", "m", "a">>
Ch_cortexLlama == <<"c", "o", "r", "t", "e", "x", "/", "L", "l", "a", "m", "a">>
ModelIds == {<<>>, Ch_claude, Ch_llama, Ch_cortexLlama}

\* the content of a message of the caller is a text of its own
UserMessage == [role |-> "user", content |-> [text |-> "Test"]]
OwnSystemMessage == [role |-> "system", content |-> [text |-> "Own"]]
MessageLists == {<<>>, <<OwnSystemMessage, UserMessage>>}

ParamSets ==
  [schema : {NullV, 1, 2, 3}, objectName : {"", "Person"}, generateText : BOOLEAN,
   modelId : ModelIds, onWarning : {"absent", "returns", "throws"}, messages : MessageLists,
   maxTokens : {0, 100}]

\* the replies of the text-generation function
Tx_plain == <<"{", "\"", "a", "\"", ":", "1", "}">>
Tx_wrapped == <<" ", "x", " ", "{", "\"", "a", "\"", ":", "1", "}", " ", "y", "\n">>
Tx_js == <<"{", "a", ":", "1", "}">>
Tx_bad == <<"{", "\"", "a", "\"", ":", "}">>
Tx_none == <<"n", "o">>
Tx_open == <<"{", "\"", "a", "\"", ":", "1">>
Tx_fenced == <<"{", " ", BT, BT, BT, "j", "s", "o", "n", "\n",
               "{", "\"", "a", "\"", ":", "1", "}", "\n", BT, BT, BT>>
Tx_quoted == <<"{", "\"", "a", "\"", ":", "\"", "}", "\"", "}">>
Texts == {Tx_plain, Tx_wrapped, Tx_js, Tx_bad, Tx_none, Tx_open, Tx_fenced, Tx_quoted}

\* the usage objects of a reply
Usages ==
  {[present |-> FALSE, fields |-> <<>>]} \cup
  {[present |-> TRUE, fields |-> f] :
     f \in UNION {[fields -> {0, 10}] : fields \in SUBSET {"promptTokens", "completionTokens"}}}

TextResults ==
  [text : Texts, finishReason : {Omitted, "", "length"}, usage : Usages]

MaxGenCalls == 1

InitGen ==
  /\ variant = "pkg"
  /\ heap = GenHeap
  /\ cache = <<>>
  /\ held = {}
  /\ nBuilt = 0
  /\ nCalls = 0
  /\ pre = GenHeap
  /\ preCache = <<>>
  /\ last = NoCall
  /\ gen = GenIdle
  /\ nGen = 0
  /\ input = <<>>
  /\ output = NoOutput
  /\ cli = CliIdle
  /\ cm = CmIdle
  /\ proc = ProcIdle
  /\ walk = WalkIdle

\* a caller calls generateObject; the call runs up to its await
GenerateObject ==
  /\ gen.pc # "awaiting"
  /\ nGen < MaxGenCalls
  /\ \E params \in ParamSets : \E g \in {GenStart(params, heap, cache)} :
          /\ gen' = [pc |-> g.pc, params |-> params, error |-> g.error,
                     textCalls |-> g.textCalls, warnCalls |-> g.warnCalls,
                     sent |-> g.sent, sentMaxTokens |-> g.sentMaxTokens,
                     result |-> [none |-> ""], reply |-> [none |-> ""]]
          /\ heap' = g.heap
          /\ cache' = g.cache
  /\ pre' = heap
  /\ preCache' = cache
  /\ nGen' = nGen + 1
  /\ UNCHANGED <<variant, held, nBuilt, nCalls, last, input, output, cli,
                 cm, proc, walk>>

\* the text-generation function resolves
TextResolves ==
  /\ gen.pc = "awaiting"
  /\ \E textResult \in TextResults : \E g \in {GenFinish(textResult)} :
       gen' = [gen EXCEPT !.pc = g.pc, !.error = g.error, !.result = g.result,
                          !.reply = textResult]
  /\ UNCHANGED <<variant, heap, cache, held, nBuilt, nCalls, pre, preCache, last, nGen,
               input, output, cli,
                 cm, proc, walk>>

\* the text-generation function rejects: the await rethrows its error
TextRejects ==
  /\ gen.pc = "awaiting"
  /\ gen' = [gen EXCEPT !.pc = "rejected", !.error = "generateText failed"]
  /\ UNCHANGED <<variant, heap, cache, held, nBuilt, nCalls, pre, preCache, last, nGen,
               input, output, cli,
                 cm, proc, walk>>

NextGen == GenerateObject \/ TextResolves \/ TextRejects

SpecGen == InitGen /\ [][NextGen]_vars

\* ---------------------------------------------- the callers of the parsers
\* Replies handed to the extraction functions: every text up to MaxTextLen
\* over the characters the brace matcher distinguishes, and serialized JSON
\* values inside prose.
MaxTextLen == 5

TextAlphabet == {"{", "}", "\"", "\\", "a"}

ArbitraryTexts == UNION {[1..n -> TextAlphabet] : n \in 0..MaxTextLen}

JsonStrings ==
  {<<>>, <<"a">>, <<"H", "e", " ", "\"", "h", "i", "\"">>, <<"{">>, <<"}", "\\">>,
   <<"\"", "}">>}

JsonLeaves ==
  {JNum(<<"1">>), JNum(<<"1", "0">>), JLit("null"), JLit("true")}
    \cup {JStr(chars) : chars \in JsonStrings}

JsonFlat ==
  JsonLeaves \cup {JArr(<<>>), JObj(<<>>)}
    \cup {JArr(<<leaf>>) : leaf \in JsonLeaves}
    \cup {JObj(<<[k |-> <<"a">>, v |-> leaf]>>) : leaf \in JsonLeaves}

JsonValues ==
  JsonFlat
    \cup {JArr(<<x>>) : x \in JsonFlat}
    \cup {JObj(<<[k |-> <<"a">>, v |-> x]>>) : x \in JsonFlat}
    \cup {JObj(<<[k |-> <<"a">>, v |-> x], [k |-> <<"b">>, v |-> y]>>) :
            x \in JsonFlat, y \in JsonLeaves}

Prefix == <<"p", "r", "e", "f", "i", "x", " ", "t", "e", "x", "t", " ">>
Suffix == <<" ", "s", "u", "f", "f", "i", "x", " ", "t", "e", "x", "t">>

\* "prefix text " + JSON.stringify(V) + " suffix text"
Wrapped(value) == Prefix \o JSONstringify(value) \o Suffix

\* replies with a fenced code block: text before it, the fence with or without
\* the json tag, a body, and the closing fence or none
Tx_object_b == <<"{", "\"", "b", "\"", ":", "2", "}">>

FencePrefixes == {<<>>, <<"x", " ">>, <<"{", " ">>, Tx_plain \o <<"\n">>}
FenceTags == {<<>>, <<"j", "s", "o", "n">>}
FenceBodies == {Tx_object_b, <<"\n">> \o Tx_object_b \o <<"\n">>, <<"n", "o">>, <<"{", "b", ":", "2", "}">>}
FenceClosers == {Fence, Fence \o <<"\n">>, <<>>}

FencedTexts ==
  {before \o Fence \o tag \o body \o closer :
     before \in FencePrefixes, tag \in FenceTags, body \in FenceBodies,
     closer \in FenceClosers}

\* replies without an object that are longer than the error message carries
LongTexts ==
  {[i \in 1..(ExtractionErrorPrefixLimit + extra) |-> IF i % 7 = 0 THEN " " ELSE "a"] :
     extra \in {0, 1, 3}}

\* the lines of a stream-json output: events, an event with white space around
\* it and a carriage return, a scalar, lines that are not JSON, blank lines
Tx_padded == <<" ">> \o Tx_plain \o <<" ", "\r">>
Tx_prose == <<"o", "o", "p", "s">>

StreamLineTexts ==
  {Tx_plain, Tx_object_b, Tx_padded, <<"7">>, Tx_open, Tx_js, Tx_prose, <<>>, <<" ", " ">>}

MaxLines == 3

\* stream-json outputs of up to MaxLines lines
StreamTexts ==
  UNION {{Join(lines, "\n") : lines \in [1..n -> StreamLineTexts]} : n \in 1..MaxLines}

TextInputs ==
  ArbitraryTexts \cup {Wrapped(value) : value \in JsonValues} \cup FencedTexts \cup LongTexts
    \cup StreamTexts

InitText ==
  /\ variant = "pkg"
  /\ heap = <<>>
  /\ cache = <<>>
  /\ held = {}
  /\ nBuilt = 0
  /\ nCalls = 0
  /\ pre = <<>>
  /\ preCache = <<>>
  /\ last = NoCall
  /\ gen = GenIdle
  /\ nGen = 0
  /\ input \in TextInputs
  /\ output = NoOutput
  /\ cli = CliIdle
  /\ cm = CmIdle
  /\ proc = ProcIdle
  /\ walk = WalkIdle

\* a caller applies extractFirstJsonObject to the text
ExtractFirst ==
  /\ output' = [op |-> "extractFirstJsonObject", res |-> extractFirstJsonObject(input)]
  /\ UNCHANGED <<variant, heap, cache, held, nBuilt, nCalls, pre, preCache, last, gen, nGen,
                 input, cli,
                 cm, proc, walk>>

\* a caller applies extractAndParse to the text
ExtractParse ==
  /\ output' = [op |-> "extractAndParse", res |-> extractAndParse(input)]
  /\ UNCHANGED <<variant, heap, cache, held, nBuilt, nCalls, pre, preCache, last, gen, nGen,
                 input, cli,
                 cm, proc, walk>>

\* a caller applies extractStreamJson to the text
ExtractStream ==
  /\ output' = [op |-> "extractStreamJson", res |-> extractStreamJson(input)]
  /\ UNCHANGED <<variant, heap, cache, held, nBuilt, nCalls, pre, preCache, last, gen, nGen,
                 input, cli,
                 cm, proc, walk>>

NextText == ExtractFirst \/ ExtractParse \/ ExtractStream

SpecText == InitText /\ [][NextText]_vars

\* ------------------------------------- the callers of ModelHelpers
\* Identifiers are put together from a beginning, a model name and an ending,
\* so that the names looked for appear in any case, cut short, after other
\* text, and behind the prefix written once, twice or in capitals.
Ch_cortexUpper == <<"C", "O", "R", "T", "E", "X", "/">>

IdBeginnings ==
  {<<>>, CortexPrefix, Ch_cortexUpper, CortexPrefix \o CortexPrefix, <<"m", "y", "-">>,
   <<"C", "o", "r", "t", "e", "x", "/">>}

IdNames ==
  {<<"c", "l", "a", "u", "d", "e">>, <<"C", "l", "a", "u", "d", "e">>,
   <<"C", "L", "A", "U", "D", "E">>, <<"o", "p", "e", "n", "a", "i">>,
   <<"O", "p", "e", "n", "A", "I">>, <<"g", "p", "t", "-">>, <<"G", "P", "T", "-">>,
   <<"g", "p", "t">>, <<"c", "l", "a", "u", "d">>, <<"p", "e", "n", "a", "i">>,
   Ch_llama, <<"M", "i", "s", "t", "r", "a", "l">>, <<>>}

IdEndings == {<<>>, <<"-", "3">>, <<"X">>}

\* what a caller that ignores the declared type may pass instead of a string
NonStrings == {JNum(<<"4", "2">>), JNum(<<"0">>), JLit("null"), JLit("undefined"),
               JLit("true"), JLit("false"), JObj(<<>>), JArr(<<>>)}

IdInputs ==
  {JStr(beginning \o name \o ending) :
     beginning \in IdBeginnings, name \in IdNames, ending \in IdEndings}
    \cup NonStrings

InitIds ==
  /\ variant = "pkg"
  /\ heap = <<>>
  /\ cache = <<>>
  /\ held = {}
  /\ nBuilt = 0
  /\ nCalls = 0
  /\ pre = <<>>
  /\ preCache = <<>>
  /\ last = NoCall
  /\ gen = GenIdle
  /\ nGen = 0
  /\ input \in IdInputs
  /\ output = NoOutput
  /\ cli = CliIdle
  /\ cm = CmIdle
  /\ proc = ProcIdle
  /\ walk = WalkIdle

\* a caller applies supportsStructuredOutputs to the identifier
Supports ==
  /\ output' = [op |-> "supportsStructuredOutputs", res |-> supportsStructuredOutputs(input)]
  /\ UNCHANGED <<variant, heap, cache, held, nBuilt, nCalls, pre, preCache, last, gen, nGen,
                 input, cli,
                 cm, proc, walk>>

\* a caller applies normalizeModelId to the identifier
Normalize ==
  /\ output' = [op |-> "normalizeModelId", res |-> normalizeModelId(input)]
  /\ UNCHANGED <<variant, heap, cache, held, nBuilt, nCalls, pre, preCache, last, gen, nGen,
                 input, cli,
                 cm, proc, walk>>

NextIds == Supports \/ Normalize

SpecIds == InitIds /\ [][NextIds]_vars

\* ------------------------------------------- the CLI language model
\* errors.ts: an error is [code, isRetryable, execution]; execution tells the
\* errors of different executions apart, as object identity does
AuthenticationPhrases ==
  {<<"a", "u", "t", "h", "e", "n", "t", "i", "c", "a", "t", "i", "o", "n", " ", "f", "a", "i", "l", "e", "d">>,
   <<"i", "n", "v", "a", "l", "i", "d", " ", "c", "r", "e", "d", "e", "n", "t", "i", "a", "l", "s">>,
   <<"u", "n", "a", "u", "t", "h", "o", "r", "i", "z", "e", "d">>,
   <<"4", "0", "1">>}

ConnectionPhrases ==
  {<<"c", "o", "n", "n", "e", "c", "t", "i", "o", "n", " ", "r", "e", "f", "u", "s", "e", "d">>,
   <<"c", "o", "u", "l", "d", " ", "n", "o", "t", " ", "c", "o", "n", "n", "e", "c", "t">>,
   <<"n", "e", "t", "w", "o", "r", "k", " ", "e", "r", "r", "o", "r">>,
   <<"e", "c", "o", "n", "n", "r", "e", "f", "u", "s", "e", "d">>}

TimeoutPhrases ==
  {<<"t", "i", "m", "e", "o", "u", "t">>,
   <<"t", "i", "m", "e", "d", " ", "o", "u", "t">>,
   <<"d", "e", "a", "d", "l", "i", "n", "e", " ", "e", "x", "c", "e", "e", "d", "e", "d">>}

parseErrorFromStderr(stderr) ==
  LET lowerStderr == toLowerCase(stderr)
  IN IF \E phrase \in AuthenticationPhrases : Includes(lowerStderr, phrase) THEN "authentication"
     ELSE IF \E phrase \in ConnectionPhrases : Includes(lowerStderr, phrase) THEN "connection"
     ELSE IF \E phrase \in TimeoutPhrases : Includes(lowerStderr, phrase) THEN "timeout"
     ELSE "unknown"

\* metadata is [code, exitCode]
isRetryableError(metadata) ==
  IF metadata.code \in {"TIMEOUT_ERROR", "CONNECTION_ERROR"} THEN TRUE
  ELSE IF metadata.code \in {"AUTHENTICATION_ERROR", "INSTALLATION_ERROR"} THEN FALSE
  ELSE metadata.exitCode = 124 \/ metadata.exitCode = 137

createAPICallError(exitCode, execution) ==
  [code |-> "API_CALL_ERROR",
   isRetryable |-> isRetryableError([code |-> "none", exitCode |-> exitCode]),
   execution |-> execution]

createAuthenticationError(execution) ==
  [code |-> "AUTHENTICATION_ERROR", isRetryable |-> FALSE, execution |-> execution]

createTimeoutError(execution) ==
  [code |-> "TIMEOUT_ERROR", isRetryable |-> TRUE, execution |-> execution]

createInstallationError(execution) ==
  [code |-> "INSTALLATION_ERROR", isRetryable |-> FALSE, execution |-> execution]

createConnectionError(execution) ==
  [code |-> "CONNECTION_ERROR", isRetryable |-> TRUE, execution |-> execution]

DefaultMaxRetries == 3

\* the largest maxRetries of the settings
MaxRetriesSetting == 2

\* settings.maxRetries: not set, or a number of retries
RetrySettings ==
  {[present |-> FALSE, value |-> 0]}
    \cup {[present |-> TRUE, value |-> n] : n \in 0..MaxRetriesSetting}

\* this.settings.maxRetries ?? 3
EffectiveMaxRetries(setting) == IF setting.present THEN setting.value ELSE DefaultMaxRetries

\* what the CLI writes to stderr
StderrTexts ==
  {<<>>, <<"4", "0", "1", " ", "U", "n", "a", "u", "t", "h", "o", "r", "i", "z", "e", "d">>,
   <<"E", "C", "O", "N", "N", "R", "E", "F", "U", "S", "E", "D">>,
   <<"T", "i", "m", "e", "d", " ", "o", "u", "t">>,
   <<"b", "o", "o", "m">>,
   <<"u", "n", "a", "u", "t", "h", "o", "r", "i", "z", "e", "d", ":", " ", "c", "o", "n", "n", "e", "c", "t", "i", "o", "n", " ", "r", "e", "f", "u", "s", "e", "d">>}

ExitCodes == {0, 1, 124, 137}

\* how one execution of the CLI ends: the process closes with its streams and
\* exit code (hasText: the stream-json output carries text), the timer fires,
\* or the process cannot be started
CliOutcomes ==
  [kind : {"close"}, stderr : StderrTexts, exitCode : ExitCodes, hasText : BOOLEAN]
    \cup [kind : {"timeout", "error"}, stderr : {<<>>}, exitCode : {0}, hasText : {FALSE}]

\* the condition of the retry loop that allows one execution too many
LoopContinues_OneMore(attempt, maxRetries) == attempt <= maxRetries + 1

\* the condition of the retry loop
LoopContinues(attempt, maxRetries) == attempt <= maxRetries

\* the body of the try block from the settled execution on: the error it
\* throws, or none
ErrorOf(outcome, execution) ==
  IF outcome.kind = "timeout" THEN createTimeoutError(execution)
  ELSE IF outcome.kind = "error" THEN createInstallationError(execution)
  ELSE IF outcome.stderr # <<>> /\ outcome.exitCode # 0
    THEN (IF parseErrorFromStderr(outcome.stderr) = "authentication"
            THEN createAuthenticationError(execution)
          ELSE IF parseErrorFromStderr(outcome.stderr) = "connection"
            THEN createConnectionError(execution)
          ELSE createAPICallError(outcome.exitCode, execution))
  ELSE IF ~outcome.hasText THEN createAPICallError(outcome.exitCode, execution)
  ELSE NoError

\* attempt++ and the loop condition: one more execution, or the throw of
\* lastError after the loop
NextAttempt(c) ==
  IF LoopContinues(c.attempt + 1, c.maxRetries)
    THEN [c EXCEPT !.attempt = @ + 1, !.pc = "executing", !.executions = @ + 1, !.delay = 0]
    ELSE [c EXCEPT !.attempt = @ + 1, !.pc = "rejected", !.error = c.lastError, !.delay = 0]

\* the catch block without the test of isRetryable
Caught_RetryAll(c, error) ==
  LET c1 == [c EXCEPT !.lastError = error, !.failures = Append(@, error)]
  IN IF c.attempt < c.maxRetries
       THEN [c1 EXCEPT !.pc = "backoff", !.delay = (2 ^ c.attempt) * 1000]
     ELSE NextAttempt(c1)

\* the catch block
Caught(c, error) ==
  LET c1 == [c EXCEPT !.lastError = error, !.failures = Append(@, error)]
  IN IF ~error.isRetryable THEN [c1 EXCEPT !.pc = "rejected", !.error = error]
     ELSE IF c.attempt < c.maxRetries
       THEN [c1 EXCEPT !.pc = "backoff", !.delay = (2 ^ c.attempt) * 1000]
     ELSE NextAttempt(c1)

InitCli ==
  /\ variant = "pkg"
  /\ heap = <<>>
  /\ cache = <<>>
  /\ held = {}
  /\ nBuilt = 0
  /\ nCalls = 0
  /\ pre = <<>>
  /\ preCache = <<>>
  /\ last = NoCall
  /\ gen = GenIdle
  /\ nGen = 0
  /\ input = <<>>
  /\ output = NoOutput
  /\ cli = CliIdle
  /\ cm = CmIdle
  /\ proc = ProcIdle
  /\ walk = WalkIdle

CliUnchanged ==
  UNCHANGED <<variant, heap, cache, held, nBuilt, nCalls, pre, preCache, last, gen, nGen,
              input, output, cm, proc, walk>>

\* doGenerate is called on a model with some settings and awaits the check of
\* the installation
DoGenerate ==
  /\ cli.pc = "idle"
  /\ \E setting \in RetrySettings :
       cli' = [cli EXCEPT !.pc = "checking", !.maxRetries = EffectiveMaxRetries(setting)]
  /\ CliUnchanged

\* the check of the installation settles: without the CLI the call rejects,
\* with it the arguments are built and the loop starts its first execution
InstallationChecked ==
  /\ cli.pc = "checking"
  /\ \E available \in BOOLEAN :
       cli' = IF ~available
                THEN [cli EXCEPT !.pc = "rejected", !.error = createInstallationError(0)]
              ELSE IF LoopContinues(0, cli.maxRetries)
                THEN [cli EXCEPT !.pc = "executing", !.executions = 1]
              ELSE [cli EXCEPT !.pc = "rejected", !.error = cli.lastError]
  /\ CliUnchanged

\* the execution of the CLI settles and the rest of the loop body runs
CliSettles ==
  /\ cli.pc = "executing"
  /\ \E outcome \in CliOutcomes :
       \E error \in {ErrorOf(outcome, cli.executions)} :
         \E c \in {[cli EXCEPT !.outcome = outcome]} :
           cli' = IF error = NoError THEN [c EXCEPT !.pc = "resolved"] ELSE Caught(c, error)
  /\ CliUnchanged

\* the timer of the backoff fires
BackoffElapses ==
  /\ cli.pc = "backoff"
  /\ cli' = NextAttempt(cli)
  /\ CliUnchanged

NextCli == DoGenerate \/ InstallationChecked \/ CliSettles \/ BackoffElapses

SpecCli == InitCli /\ [][NextCli]_vars

\* every awaited promise settles: the check of the installation and the
\* execution end with the process or with the timer, and the backoff timer
\* fires
SpecCliFair ==
  SpecCli /\ WF_vars(InstallationChecked) /\ WF_vars(CliSettles) /\ WF_vars(BackoffElapses)

\* ------------------------------------------------ token parameters
MIN_TOKENS == 8192

\* a number that may be left out: [present, value]
NoNumber == [present |-> FALSE, value |-> 0]
Number(n) == [present |-> TRUE, value |-> n]

\* supportedModels.find: the first entry with the identifier, [found, info]
RECURSIVE FindModel(_, _, _)
FindModel(supportedModels, normalizedId, i) ==
  IF i > Len(supportedModels) THEN [found |-> FALSE, max_tokens |-> 0]
  ELSE IF supportedModels[i].id = normalizedId
    THEN [found |-> TRUE, max_tokens |-> supportedModels[i].max_tokens]
  ELSE FindModel(supportedModels, normalizedId, i + 1)

\* modelInfo?.max_tokens || 8192
getModelMaxTokens(modelId, providerPrefix, supportedModels) ==
  LET normalizedId == IF StartsWith(modelId, providerPrefix \o <<"/">>) THEN modelId
                      ELSE providerPrefix \o <<"/">> \o modelId
      modelInfo == FindModel(supportedModels, normalizedId, 1)
  IN IF modelInfo.found /\ modelInfo.max_tokens # 0 THEN modelInfo.max_tokens ELSE 8192

\* normalizeTokenParams without the cap at the maximum of the model
normalizeTokenParams_NoCap(params, modelId, providerPrefix, supportedModels) ==
  LET modelMaxTokens == getModelMaxTokens(modelId, providerPrefix, supportedModels)
  IN IF ~params.maxTokens.present \/ params.maxTokens.value = 0
       THEN [params EXCEPT !.maxTokens = Number(modelMaxTokens)]
     ELSE IF params.maxTokens.value < MIN_TOKENS
       THEN [params EXCEPT !.maxTokens = Number(MIN_TOKENS)]
     ELSE params

\* params is [maxTokens]; the result is params after the assignment
normalizeTokenParams(params, modelId, providerPrefix, supportedModels) ==
  LET modelMaxTokens == getModelMaxTokens(modelId, providerPrefix, supportedModels)
  IN IF ~params.maxTokens.present \/ params.maxTokens.value = 0
       THEN [params EXCEPT !.maxTokens = Number(modelMaxTokens)]
     ELSE IF params.maxTokens.value < MIN_TOKENS
       THEN [params EXCEPT !.maxTokens = Number(MIN_TOKENS)]
     ELSE IF params.maxTokens.value > modelMaxTokens
       THEN [params EXCEPT !.maxTokens = Number(modelMaxTokens)]
     ELSE params

\* the callers of normalizeTokenParams: the provider prefix, model
\* identifiers with and without it, and lists of up to MaxModels entries of
\* supported-models.json
CortexProvider == <<"c", "o", "r", "t", "e", "x">>

TokenModelIds == {<<"m">>, CortexPrefix \o <<"m">>, <<"x">>}

ModelInfos ==
  [id : {CortexPrefix \o <<"m">>, CortexPrefix \o <<"n">>},
   max_tokens : {0, 4096, 8192, 16384, 64000}]

MaxModels == 2

SupportedModelLists == UNION {[1..n -> ModelInfos] : n \in 0..MaxModels}

RequestedTokens ==
  {NoNumber} \cup {Number(n) : n \in {0 - 5, 0, 1, 4096, 8191, 8192, 8193, 16384, 64000, 64001}}

TokenInputs ==
  [params : [maxTokens : RequestedTokens], modelId : TokenModelIds,
   supportedModels : SupportedModelLists]

InitTokens ==
  /\ variant = "pkg"
  /\ heap = <<>>
  /\ cache = <<>>
  /\ held = {}
  /\ nBuilt = 0
  /\ nCalls = 0
  /\ pre = <<>>
  /\ preCache = <<>>
  /\ last = NoCall
  /\ gen = GenIdle
  /\ nGen = 0
  /\ input \in TokenInputs
  /\ output = NoOutput
  /\ cli = CliIdle
  /\ cm = CmIdle
  /\ proc = ProcIdle
  /\ walk = WalkIdle

\* a caller asks for the maximum of the model
GetModelMax ==
  /\ output' = [op |-> "getModelMaxTokens",
                res |-> getModelMaxTokens(input.modelId, CortexProvider, input.supportedModels)]
  /\ UNCHANGED <<variant, heap, cache, held, nBuilt, nCalls, pre, preCache, last, gen, nGen,
                 input, cli,
                 cm, proc, walk>>

\* a caller normalizes the token parameters of a request
NormalizeTokens ==
  /\ output' = [op |-> "normalizeTokenParams",
                res |-> normalizeTokenParams(input.params, input.modelId, CortexProvider,
                                             input.supportedModels)]
  /\ UNCHANGED <<variant, heap, cache, held, nBuilt, nCalls, pre, preCache, last, gen, nGen,
                 input, cli,
                 cm, proc, walk>>

NextTokens == GetModelMax \/ NormalizeTokens

SpecTokens == InitTokens /\ [][NextTokens]_vars

\* --------------------------------------------- the connection manager
\* connection-manager.ts keeps, for the life of the process, the connection
\* cache and the CLI check cache. cm holds them with the clock (Date.now()),
\* the connections of the configuration files, the validateAuth calls that
\* await the CLI check, and what an observer counts: the runs of the CLI, the
\* readings of the files, the validations, the time of the last completed
\* check and whether one completed since the caches were last cleared.
CACHE_TTL == 5 * 60 * 1000

ConnectionNames == <<"default", "other">>

\* what the files say of a connection: nothing, all required fields, or some
FileStates == [Range(ConnectionNames) -> {"missing", "complete", "incomplete"}]

NullConnection == [name |-> "null", complete |-> FALSE]

\* discoverConnections: the names the files configure, in the order of the file
discoverConnections(files) ==
  SelectSeq(ConnectionNames, LAMBDA n : files[n] # "missing")

\* getConnection that caches the connection before it validates it
getConnection_CacheFirst(c, connectionName) ==
  IF /\ connectionName \in DOMAIN c.connectionCache
     /\ c.now - c.connectionCache[connectionName].timestamp < CACHE_TTL
    THEN [c |-> c, connection |-> c.connectionCache[connectionName].connection,
          threw |-> FALSE]
  ELSE LET connections == discoverConnections(c.files)
           c1 == [c EXCEPT !.discoveries = @ + 1]
           connection == [name |-> connectionName,
                          complete |-> c.files[connectionName] = "complete"]
           c2 == [c1 EXCEPT !.validations = @ + 1,
                            !.connectionCache =
                               [n \in (DOMAIN c.connectionCache) \cup {connectionName} |->
                                  IF n = connectionName
                                    THEN [connection |-> connection, timestamp |-> c.now]
                                    ELSE c.connectionCache[n]]]
       IN IF connectionName \notin Range(connections)
            THEN [c |-> c1, connection |-> NullConnection, threw |-> FALSE]
          ELSE IF ~connection.complete
            THEN [c |-> c2, connection |-> NullConnection, threw |-> TRUE]
          ELSE [c |-> c2, connection |-> connection, threw |-> FALSE]

\* getConnection: [c, connection, threw]; validateConnection throws for a
\* connection without account, user or password
getConnection(c, connectionName) ==
  IF /\ connectionName \in DOMAIN c.connectionCache
     /\ c.now - c.connectionCache[connectionName].timestamp < CACHE_TTL
    THEN [c |-> c, connection |-> c.connectionCache[connectionName].connection,
          threw |-> FALSE]
  ELSE LET connections == discoverConnections(c.files)
           c1 == [c EXCEPT !.discoveries = @ + 1]
           connection == [name |-> connectionName,
                          complete |-> c.files[connectionName] = "complete"]
           c2 == [c1 EXCEPT !.validations = @ + 1]
       IN IF connectionName \notin Range(connections)
            THEN [c |-> c1, connection |-> NullConnection, threw |-> FALSE]
          ELSE IF ~connection.complete
            THEN [c |-> c2, connection |-> NullConnection, threw |-> TRUE]
          ELSE [c |-> [c2 EXCEPT !.connectionCache =
                                    [n \in (DOMAIN c.connectionCache) \cup {connectionName} |->
                                       IF n = connectionName
                                         THEN [connection |-> connection, timestamp |-> c.now]
                                         ELSE c.connectionCache[n]]],
                connection |-> connection, threw |-> FALSE]

getDefaultConnection(c) ==
  LET defaultConn == getConnection(c, "default")
      connections == discoverConnections(c.files)
      c1 == [defaultConn.c EXCEPT !.discoveries = @ + 1]
  IN IF defaultConn.threw \/ defaultConn.connection # NullConnection THEN defaultConn
     ELSE IF Len(connections) > 0 THEN getConnection(c1, connections[1])
     ELSE [c |-> c1, connection |-> NullConnection, threw |-> FALSE]

\* hasValidConnection: [c, has]; connectionName is "none" where the caller
\* leaves it out
hasValidConnection(c, connectionName) ==
  LET named == getConnection(c, IF connectionName = "none" THEN "default" ELSE connectionName)
      fallback == getDefaultConnection(named.c)
  IN IF named.threw THEN [c |-> named.c, has |-> FALSE]
     ELSE IF named.connection # NullConnection THEN [c |-> named.c, has |-> TRUE]
     ELSE [c |-> fallback.c,
           has |-> ~fallback.threw /\ fallback.connection # NullConnection]

Answer(op, valid, error) ==
  [op |-> op, skipped |-> FALSE, valid |-> valid, error |-> error,
   connection |-> NullConnection.name, threw |-> FALSE]

\* what validateAuth and validateAuthSync do once the CLI status is known
Authenticate(c, op, params) ==
  IF c.cliAvailable # "yes"
    THEN [c EXCEPT !.result = Answer(op, FALSE, "Cortex Code CLI is not installed")]
  ELSE LET hasConnection == hasValidConnection(c, params.connection)
       IN IF ~hasConnection.has /\ ~params.apiKey
            THEN [hasConnection.c EXCEPT
                    !.result = Answer(op, FALSE, "Either a Snowflake connection or CORTEX_API_KEY is required")]
            ELSE [hasConnection.c EXCEPT !.result = Answer(op, TRUE, "none")]

Skips(c, params) == params.skipValidation \/ c.testEnv

\* validateAuthSync without the test of _cliChecked
validateAuthSync_Unchecked(c, params) ==
  IF Skips(c, params)
    THEN [c EXCEPT !.result = [Answer("validateAuthSync", TRUE, "none") EXCEPT !.skipped = TRUE]]
  ELSE Authenticate(c, "validateAuthSync", params)

validateAuthSync(c, params) ==
  IF Skips(c, params)
    THEN [c EXCEPT !.result = [Answer("validateAuthSync", TRUE, "none") EXCEPT !.skipped = TRUE]]
  ELSE IF ~c.cliChecked
    THEN [c EXCEPT !.result = Answer("validateAuthSync", FALSE, "CLI has not been checked yet")]
  ELSE Authenticate(c, "validateAuthSync", params)

ValidationParams ==
  [skipValidation : BOOLEAN, connection : {"none", "other"}, apiKey : BOOLEAN]

\* the calls of one behaviour, the passages of time, the validateAuth calls
\* in flight
MaxCmOps == 3
MaxAdvances == 2
MaxPending == 1

InitCm ==
  /\ variant = "pkg"
  /\ heap = <<>>
  /\ cache = <<>>
  /\ held = {}
  /\ nBuilt = 0
  /\ nCalls = 0
  /\ pre = <<>>
  /\ preCache = <<>>
  /\ last = NoCall
  /\ gen = GenIdle
  /\ nGen = 0
  /\ input = <<>>
  /\ output = NoOutput
  /\ cli = CliIdle
  /\ \E files \in FileStates : \E testEnv \in BOOLEAN :
       cm = [CmIdle EXCEPT !.files = files, !.testEnv = testEnv]
  /\ proc = ProcIdle
  /\ walk = WalkIdle

CmUnchanged ==
  UNCHANGED <<variant, heap, cache, held, nBuilt, nCalls, pre, preCache, last, gen, nGen,
              input, output, cli, proc, walk>>

\* a call by the application: op and params are what it calls
Calls(c, op, params) == [c EXCEPT !.ops = @ + 1, !.event = [op |-> op, params |-> params]]

NoParams == [skipValidation |-> FALSE, connection |-> "none", apiKey |-> FALSE]

\* validateAuth up to its first await, or to its end where it awaits nothing
ValidateAuth ==
  /\ cm.ops < MaxCmOps
  /\ \E params \in ValidationParams :
       /\ (Skips(cm, params) \/ cm.cliChecked \/ Cardinality(cm.pending \cup {params}) <= MaxPending)
       /\ \E c \in {Calls(cm, "validateAuth", params)} :
            cm' = IF Skips(c, params)
                    THEN [c EXCEPT !.result =
                            [Answer("validateAuth", TRUE, "none") EXCEPT !.skipped = TRUE]]
                  ELSE IF ~c.cliChecked
                    THEN [c EXCEPT !.pending = @ \cup {params}, !.cliRuns = @ + 1]
                  ELSE Authenticate(c, "validateAuth", params)
  /\ CmUnchanged

\* checkCliInstallation resolves and the validateAuth call that awaited it
\* runs to its end
CheckCompletes ==
  /\ \E params \in cm.pending : \E available \in BOOLEAN : \E version \in {"null", "1.2.3"} :
       cm' = Authenticate([cm EXCEPT !.pending = @ \ {params},
                                     !.cliAvailable = IF available THEN "yes" ELSE "no",
                                     !.cliVersion = IF available THEN version ELSE "null",
                                     !.cliChecked = TRUE,
                                     !.checkedAt = cm.now,
                                     !.completedSinceClear = TRUE,
                                     !.event = [op |-> "checkCompletes", params |-> params]],
                          "validateAuth", params)
  /\ CmUnchanged

ValidateAuthSync ==
  /\ cm.ops < MaxCmOps
  /\ \E params \in ValidationParams :
       cm' = validateAuthSync(Calls(cm, "validateAuthSync", params), params)
  /\ CmUnchanged

ClearValidationCache ==
  /\ cm.ops < MaxCmOps
  /\ cm' = [Calls(cm, "clearValidationCache", NoParams) EXCEPT
              !.cliChecked = FALSE, !.cliAvailable = "null", !.cliVersion = "null",
              !.completedSinceClear = FALSE]
  /\ CmUnchanged

\* the application asks for a connection by name
GetConnection ==
  /\ cm.ops < MaxCmOps
  /\ \E connectionName \in Range(ConnectionNames) :
       \E r \in {getConnection(Calls(cm, "getConnection",
                                     [NoParams EXCEPT !.connection = connectionName]),
                               connectionName)} :
         cm' = [r.c EXCEPT !.result =
                  [Answer("getConnection", ~r.threw, "none") EXCEPT
                     !.connection = r.connection.name, !.threw = r.threw]]
  /\ CmUnchanged

ClearConnectionCache ==
  /\ cm.ops < MaxCmOps
  /\ cm' = [Calls(cm, "clearConnectionCache", NoParams) EXCEPT !.connectionCache = <<>>]
  /\ CmUnchanged

\* time passes: a millisecond, up to the end of the life of a cached
\* connection, or more than an hour
Elapses ==
  /\ cm.advances < MaxAdvances
  /\ \E elapsed \in {1, CACHE_TTL - 1, 60 * 60 * 1000} :
       cm' = [cm EXCEPT !.now = @ + elapsed, !.advances = @ + 1,
                        !.event = [op |-> "elapses", params |-> NoParams]]
  /\ CmUnchanged

\* somebody edits the configuration files
EditConfig ==
  /\ cm.ops < MaxCmOps
  /\ \E files \in FileStates :
       /\ files # cm.files
       /\ cm' = [Calls(cm, "editConfig", NoParams) EXCEPT !.files = files]
  /\ CmUnchanged

NextCm ==
  \/ ValidateAuth
  \/ CheckCompletes
  \/ ValidateAuthSync
  \/ ClearValidationCache
  \/ GetConnection
  \/ ClearConnectionCache
  \/ Elapses
  \/ EditConfig

SpecCm == InitCm /\ [][NextCm]_vars

\* ------------------------------------------ the recursion, step by step
\* removeUnsupportedFeatures calls itself for every sub-schema of a node
\* and writes the node into _schemaCache only when those calls have
\* returned. Here the call stack is explicit: a frame is [node, i], the
\* node being cleaned and the sub-schema it looks at next. A schema graph
\* gives every node its sub-schemas; a node may be shared, and may be
\* reachable from itself (const s = {type: 'object', properties: {}};
\* s.properties.self = s).
MaxNodes == 3
MaxWalkCalls == 2

\* the depth at which the engine throws RangeError: Maximum call stack size
\* exceeded; an acyclic graph of MaxNodes nodes needs MaxNodes frames
StackLimit == MaxNodes + 1

Nodes == 1..MaxNodes

RECURSIVE Ascending(_)
Ascending(S) ==
  IF S = {} THEN <<>>
  ELSE LET least == CHOOSE x \in S : \A y \in S : x <= y
       IN <<least>> \o Ascending(S \ {least})

\* every graph on the nodes: the sub-schemas of a node in the order of its keys
SchemaGraphs == [Nodes -> {Ascending(S) : S \in SUBSET Nodes}]

InitWalk ==
  /\ variant = "pkg"
  /\ heap = <<>>
  /\ cache = <<>>
  /\ held = {}
  /\ nBuilt = 0
  /\ nCalls = 0
  /\ pre = <<>>
  /\ preCache = <<>>
  /\ last = NoCall
  /\ gen = GenIdle
  /\ nGen = 0
  /\ input = <<>>
  /\ output = NoOutput
  /\ cli = CliIdle
  /\ cm = CmIdle
  /\ proc = ProcIdle
  /\ \E graph \in SchemaGraphs : walk = [WalkIdle EXCEPT !.graph = graph]

WalkUnchanged ==
  UNCHANGED <<variant, heap, cache, held, nBuilt, nCalls, pre, preCache, last, gen, nGen,
              input, output, cli, cm, proc>>

\* the caller calls removeUnsupportedFeatures(root): a cached root is
\* returned at once
WalkCall ==
  /\ walk.pc \in {"idle", "returned"}
  /\ walk.calls < MaxWalkCalls
  /\ \E root \in Nodes :
       walk' = [walk EXCEPT !.root = root, !.calls = @ + 1,
                            !.pc = IF root \in walk.cached THEN "returned" ELSE "running",
                            !.stack = IF root \in walk.cached THEN <<>>
                                      ELSE <<[node |-> root, i |-> 1]>>]
  /\ WalkUnchanged

\* the node on top of the stack
Top == walk.stack[Len(walk.stack)]

\* the sub-schema the top frame looks at
Child == walk.graph[Top.node][Top.i]

Advanced(stack) == [stack EXCEPT ![Len(stack)].i = @ + 1]

\* the recursive call for the next sub-schema: a cached one returns at
\* once, any other gets a frame, for which the engine may have no room
WalkDescend ==
  /\ walk.pc = "running"
  /\ Top.i <= Len(walk.graph[Top.node])
  /\ walk' = IF Child \in walk.cached
               THEN [walk EXCEPT !.stack = Advanced(walk.stack)]
             ELSE IF Len(walk.stack) >= StackLimit
               THEN [walk EXCEPT !.pc = "RangeError", !.stack = <<>>]
             ELSE [walk EXCEPT !.stack = Append(walk.stack, [node |-> Child, i |-> 1])]
  /\ WalkUnchanged

\* _schemaCache.set(schema, cleaned); return cleaned
WalkReturn ==
  /\ walk.pc = "running"
  /\ Top.i > Len(walk.graph[Top.node])
  /\ walk' = [walk EXCEPT
                !.cached = @ \cup {Top.node},
                !.stack = IF Len(walk.stack) = 1 THEN <<>>
                          ELSE Advanced(SubSeq(walk.stack, 1, Len(walk.stack) - 1)),
                !.pc = IF Len(walk.stack) = 1 THEN "returned" ELSE "running"]
  /\ WalkUnchanged

NextWalk == WalkCall \/ WalkDescend \/ WalkReturn

SpecWalk == InitWalk /\ [][NextWalk]_vars

\* the engine runs a call that has started
SpecWalkFair == SpecWalk /\ WF_vars(WalkDescend) /\ WF_vars(WalkReturn)

\* ------------------------------------------------- executeCortexCli
\* One call of executeCortexCli: the promise (state, value), the timer, the
\* child process and what its streams have delivered. The callbacks run one
\* at a time, in whatever order the timer and the child produce them; first
\* is the callback that ran first, events counts the callbacks that ran.
DefaultTimeout == 60000

\* options.timeout and settings.timeout: left out, or a number
TimeoutSettings ==
  {[present |-> FALSE, value |-> 0], [present |-> TRUE, value |-> 0],
   [present |-> TRUE, value |-> 5000]}

\* options.timeout ?? this.settings.timeout ?? 60000
EffectiveTimeout(options, settings) ==
  IF options.present THEN options.value
  ELSE IF settings.present THEN settings.value
  ELSE DefaultTimeout

\* resolve and reject: a promise that has settled stays as it is
Settle(p, state, value) ==
  IF p.state = "pending" THEN [p EXCEPT !.state = state, !.value = value] ELSE p

\* clearTimeout(timeoutId), under if (timeoutId)
ClearTimer(p) == IF p.timer = "armed" THEN [p EXCEPT !.timer = "cleared"] ELSE p

Ran(p, callback) ==
  [p EXCEPT !.events = @ + 1, !.first = IF p.first = "none" THEN callback ELSE @]

\* the callback of setTimeout
OnTimeout(p) ==
  Settle([Ran(p, "timeout") EXCEPT !.timer = "fired", !.kills = @ + 1],
         "rejected", [NoValue EXCEPT !.kind = "TIMEOUT_ERROR", !.timeoutMs = p.timeout])

\* the listener of close that leaves the timer running
OnClose_KeepTimer(p, code) ==
  Settle([Ran(p, "close") EXCEPT !.closed = TRUE, !.destroyed = TRUE],
         "resolved",
         [NoValue EXCEPT !.kind = "result", !.stdout = p.stdout, !.stderr = p.stderr,
                         !.exitCode = IF code.present THEN code.value ELSE 0])

\* the listener of close; code is null for a process ended by a signal
OnClose(p, code) ==
  Settle([ClearTimer(Ran(p, "close")) EXCEPT !.closed = TRUE, !.destroyed = TRUE],
         "resolved",
         [NoValue EXCEPT !.kind = "result", !.stdout = p.stdout, !.stderr = p.stderr,
                         !.exitCode = IF code.present THEN code.value ELSE 0])

\* the listener of error
OnError(p) ==
  Settle([ClearTimer(Ran(p, "error")) EXCEPT !.errored = TRUE],
         "rejected", [NoValue EXCEPT !.kind = "INSTALLATION_ERROR"])

\* the chunks the streams deliver in one call
MaxChunks == 2

InitProc ==
  /\ variant = "pkg"
  /\ heap = <<>>
  /\ cache = <<>>
  /\ held = {}
  /\ nBuilt = 0
  /\ nCalls = 0
  /\ pre = <<>>
  /\ preCache = <<>>
  /\ last = NoCall
  /\ gen = GenIdle
  /\ nGen = 0
  /\ input = <<>>
  /\ output = NoOutput
  /\ cli = CliIdle
  /\ cm = CmIdle
  /\ proc = ProcIdle
  /\ walk = WalkIdle

ProcUnchanged ==
  UNCHANGED <<variant, heap, cache, held, nBuilt, nCalls, pre, preCache, last, gen, nGen,
              input, output, cli, cm, walk>>

\* the call up to the return of the promise: spawn, which starts the process
\* or fails to, and the timer where the timeout is positive
ExecuteCortexCli ==
  /\ proc.pc = "idle"
  /\ \E options \in TimeoutSettings : \E settings \in TimeoutSettings : \E spawned \in BOOLEAN :
       \E timeout \in {EffectiveTimeout(options, settings)} :
         proc' = [proc EXCEPT !.pc = "called", !.timeout = timeout, !.spawned = spawned,
                              !.timer = IF timeout > 0 THEN "armed" ELSE "none"]
  /\ ProcUnchanged

\* a stream of the running process delivers a chunk
StreamData ==
  /\ proc.pc = "called"
  /\ proc.spawned
  /\ ~proc.destroyed
  /\ Len(proc.stdout) + Len(proc.stderr) < MaxChunks
  /\ \E chunk \in {"x", "y"} :
       \/ proc' = [proc EXCEPT !.stdout = Append(@, chunk)]
       \/ proc' = [proc EXCEPT !.stderr = Append(@, chunk)]
  /\ ProcUnchanged

\* the timer fires
TimerFires ==
  /\ proc.pc = "called"
  /\ proc.timer = "armed"
  /\ proc' = OnTimeout(proc)
  /\ ProcUnchanged

\* the child emits close: a process that ran, with its exit code or, ended
\* by a signal, with null; a process that could not be started, after its
\* error, with the negative error number
ChildCloses ==
  /\ proc.pc = "called"
  /\ ~proc.closed
  /\ \/ /\ proc.spawned
        /\ \E code \in {[present |-> FALSE, value |-> 0], [present |-> TRUE, value |-> 0],
                        [present |-> TRUE, value |-> 1]} :
             /\ ~code.present => proc.kills > 0
             /\ proc' = OnClose(proc, code)
     \/ /\ ~proc.spawned
        /\ proc.errored
        /\ proc' = OnClose(proc, [present |-> TRUE, value |-> 0 - 2])
  /\ ProcUnchanged

\* the child emits error: the process could not be started
ChildErrors ==
  /\ proc.pc = "called"
  /\ ~proc.spawned
  /\ ~proc.errored
  /\ proc' = OnError(proc)
  /\ ProcUnchanged

NextProc == ExecuteCortexCli \/ StreamData \/ TimerFires \/ ChildCloses \/ ChildErrors

SpecProc == InitProc /\ [][NextProc]_vars

\* ------------------------------------------------- observing a call
\* the last call was made on an object and returned
Returned == nCalls > 0 /\ IsObj(last.arg) /\ ~last.threw

\* the nodes of the tree the last call returned
OutNodes == Reach(heap, last.res)

PropKeys(n) == IF Has(n, "properties") THEN Range(Keys(n["properties"])) ELSE {}

\* { anyOf: [ {type: "string"}, {type: "null"} ] }
IsNullableString(h, v) ==
  /\ IsObj(v)
  /\ DOMAIN h[v] = {"anyOf"}
  /\ Len(h[v]["anyOf"]) = 2
  /\ \A i \in 1..2 : IsObj(h[v]["anyOf"][i])
  /\ h[h[v]["anyOf"][1]] = [type |-> Scalar("string")]
  /\ h[h[v]["anyOf"][2]] = [type |-> Scalar("null")]

\* ------------------------------------------------------------ claims

\* C1: idempotence: cleaning a schema that clean returned gives back a schema
\* equal to it, key for key and value for value.
C1_Idempotent ==
  (Returned /\ last.arg \in {preCache[k] : k \in DOMAIN preCache})
    => Deep(heap, last.res) = Deep(pre, last.arg)

\* C2: in the returned tree every node of type "object" has
\* additionalProperties false and a required array that names only keys of
\* its properties, also when it declares no properties.
C2_ObjectInvariant ==
  Returned =>
    \A a \in OutNodes :
      IsType(heap[a], "object") =>
        /\ Has(heap[a], "additionalProperties")
        /\ heap[a]["additionalProperties"] = FALSE
        /\ Has(heap[a], "required")
        /\ Range(heap[a]["required"]) \subseteq PropKeys(heap[a])

\* C3: no node of the returned tree carries a keyword of the unsupported set
\* (the set of the claim, pattern included).
C3_KeywordsEliminated ==
  Returned => \A a \in OutNodes : (DOMAIN heap[a]) \cap UNSUPPORTED_KEYWORDS_alt = {}

\* C4: no node of the returned tree carries the transient marker _isOptional.
C4_NoMarkerInOutput ==
  Returned => \A a \in OutNodes : ~Has(heap[a], "_isOptional")

\* C5: the call leaves every node of its input tree as it was.
C5_InputNotMutated ==
  (nCalls > 0 /\ IsObj(last.arg)) => \A a \in Reach(pre, last.arg) : heap[a] = pre[a]

\* C6: a node { anyOf: [string, null] } is cleaned to type "string" without
\* anyOf, and where it is a property of an object its name is not in the
\* cleaned object's required.
C6_NullableFlattening ==
  Returned =>
    /\ IsNullableString(pre, last.arg) =>
         (IsType(heap[last.res], "string") /\ ~Has(heap[last.res], "anyOf"))
    /\ (IsType(pre[last.arg], "object") /\ Has(pre[last.arg], "properties")) =>
         \A i \in DOMAIN pre[last.arg]["properties"] :
           IsNullableString(pre, pre[last.arg]["properties"][i].v) =>
             (Has(heap[last.res], "required") =>
                pre[last.arg]["properties"][i].k \notin Range(heap[last.res]["required"]))

\* C7: the transformer never throws, whatever the input.
C7_NeverThrows == nCalls > 0 => ~last.threw

\* ------------------------------------------ observing generateObject
\* the call has run its synchronous part
Called == gen.pc # "idle"

\* the call has settled
Settled == gen.pc \in {"resolved", "rejected"}

PreconditionViolated(params) ==
  params.schema = NullV \/ params.objectName = "" \/ ~params.generateText

PreconditionErrors ==
  {"Schema is required for object generation",
   "Object name is required for object generation",
   "generateText function is required"}

\* the model named by the call has no native structured-output support
NamesUnsupportedModel(params) ==
  /\ Len(params.modelId) > 0
  /\ ~supportsStructuredOutputs(normalizeModelId(JStr(params.modelId)))

\* C8: a call whose schema is missing, whose objectName is empty or whose
\* text-generation function is missing is rejected with the error of the
\* check, and no side effect has happened: neither the text-generation
\* function nor onWarning has been invoked, and no schema has been cleaned.
C8_PreconditionsFirst ==
  (Called /\ PreconditionViolated(gen.params)) =>
    /\ gen.pc = "rejected"
    /\ gen.error \in PreconditionErrors
    /\ gen.textCalls = 0
    /\ gen.warnCalls = 0
    /\ heap = pre
    /\ cache = preCache

\* a rejected call without schema that names an unsupported model and
\* supplies both functions
C8_Witness ==
  /\ gen.pc = "rejected"
  /\ gen.params.schema = NullV
  /\ gen.params.objectName = "Person"
  /\ gen.params.generateText
  /\ gen.params.onWarning = "returns"
  /\ NamesUnsupportedModel(gen.params)

\* C9: every settled call that passed the precondition checks has invoked the
\* text-generation function exactly once and onWarning at most once; a
\* rejection of the text-generation function or a failed extraction ends the
\* call with that failure.
C9_InvokedExactlyOnce ==
  (Settled /\ ~PreconditionViolated(gen.params)) =>
    /\ gen.textCalls = 1
    /\ gen.warnCalls <= 1
    /\ gen.pc = "rejected" =>
         gen.error \in {"generateText failed", "Failed to parse JSON response",
                        "Could not extract JSON object from response"}

\* C10: the warning path never prevents the generation: a call that names an
\* unsupported model and ended before the text-generation function was
\* invoked would have ended with the same error had it named no model.
C10_WarningAdvisory ==
  (Called /\ NamesUnsupportedModel(gen.params) /\ gen.textCalls = 0) =>
    \E g \in {GenStart([gen.params EXCEPT !.modelId = <<>>], pre, preCache)} :
      g.pc = "rejected" /\ g.error = gen.error

\* C11: the message list passed to the text-generation function is one
\* synthesized system message (the prompt built from the cleaned schema and
\* the object name) at the first position, followed by the messages of the
\* caller in their order and unchanged, system messages of the caller
\* included; its length is the length of the caller's list plus one.
C11_MessageList ==
  gen.textCalls = 1 =>
    /\ Len(gen.sent) = Len(gen.params.messages) + 1
    /\ gen.sent[1] =
         [role |-> "system",
          content |-> buildSystemPrompt(Deep(heap, cache[gen.params.schema]),
                                        gen.params.objectName)]
    /\ \A i \in DOMAIN gen.params.messages : gen.sent[i + 1] = gen.params.messages[i]

\* the text-generation function has been invoked by a caller that supplied a
\* system message and a user message of its own
C11_Witness ==
  /\ gen.textCalls = 1
  /\ gen.params.messages = <<OwnSystemMessage, UserMessage>>

\* C12: a resolved call returns the parsed object; finishReason is "stop" when
\* the reply omits it and the reply's finishReason otherwise; each of
\* promptTokens and completionTokens is 0 when the reply omits usage or that
\* field, and the reply's value otherwise.
C12_ResultDefaults ==
  gen.pc = "resolved" =>
    /\ gen.result.object = extractAndParse(gen.reply.text).value
    /\ gen.result.finishReason =
         (IF gen.reply.finishReason = Omitted THEN "stop" ELSE gen.reply.finishReason)
    /\ \A field \in {"promptTokens", "completionTokens"} :
         gen.result.usage[field] =
           (IF gen.reply.usage.present /\ field \in DOMAIN gen.reply.usage.fields
              THEN gen.reply.usage.fields[field] ELSE 0)

\* ------------------------------------------- observing the extraction
\* Position j of the text is escaped when an odd number of backslashes stands
\* immediately before it, counted back no further than position start: the
\* escape is pending there, and the character is skipped.
RECURSIVE BackslashRun(_, _, _)
BackslashRun(text, start, j) ==
  IF j > start /\ text[j - 1] = "\\" THEN 1 + BackslashRun(text, start, j - 1) ELSE 0

Escaped(text, start, j) == BackslashRun(text, start, j) % 2 = 1

\* position j is inside a string literal: an odd number of quotes that are not
\* escaped stands between start and j
InsideString(text, start, j) ==
  Cardinality({k \in start..(j - 1) : text[k] = "\"" /\ ~Escaped(text, start, k)}) % 2 = 1

\* position j holds the brace c, and it counts
CountedBrace(text, start, j, c) ==
  text[j] = c /\ ~Escaped(text, start, j) /\ ~InsideString(text, start, j)

\* the brace depth after position j
DepthAfter(text, start, j) ==
  Cardinality({k \in start..j : CountedBrace(text, start, k, "{")})
    - Cardinality({k \in start..j : CountedBrace(text, start, k, "}")})

\* the positions of the closing braces that bring the depth back to zero
Closers(text, start) ==
  {j \in start..Len(text) :
     CountedBrace(text, start, j, "}") /\ DepthAfter(text, start, j) = 0}

\* C13: extractFirstJsonObject returns the part of the text from its first
\* opening brace to the first closing brace that brings the brace depth back to
\* zero, where braces inside string literals do not count and an escaped quote
\* or backslash does not switch the in-string state; it returns not-found
\* when the text has no opening brace or no such closing brace.
C13_FirstBalancedObject ==
  output.op = "extractFirstJsonObject" =>
    LET opens == {i \in DOMAIN input : input[i] = "{"}
        start == CHOOSE i \in opens : \A k \in opens : i <= k
    IN IF opens = {} \/ Closers(input, start) = {}
         THEN output.res = NotFound
         ELSE \E end \in Closers(input, start) :
                /\ \A j \in Closers(input, start) : end <= j
                /\ output.res = SubSeq(input, start, end)

\* the function has been applied to a text with a closing brace inside a
\* string literal, after an escaped quote, before the closing brace that counts
C13_Witness ==
  /\ output.op = "extractFirstJsonObject"
  /\ output.res # NotFound
  /\ \E start \in DOMAIN input : \E i \in DOMAIN input :
       /\ input[start] = "{"
       /\ \A k \in 1..(start - 1) : input[k] # "{"
       /\ input[i] = "}"
       /\ i < start + Len(output.res) - 1
       /\ InsideString(input, start, i)
       /\ \E q \in start..(i - 1) : input[q] = "\"" /\ Escaped(input, start, q)

\* a string of the value holds a brace
RECURSIVE BraceInString(_)
BraceInString(value) ==
  \/ value.t = "string" /\ \E i \in DOMAIN value.s : value.s[i] \in {"{", "}"}
  \/ value.t = "array" /\ \E i \in DOMAIN value.m : BraceInString(value.m[i])
  \/ value.t = "object" /\
       \E i \in DOMAIN value.m :
         \/ BraceInString(value.m[i].v)
         \/ \E j \in DOMAIN value.m[i].k : value.m[i].k[j] \in {"{", "}"}

\* extractAndParse applied to the reply that wraps the value gave it back
RoundTrip(value) ==
  (output.op = "extractAndParse" /\ input = Wrapped(value)) =>
    (output.res.ok /\ output.res.value = value)

FirstBlock(text) ==
  LET fences == {i \in 1..(Len(text) - 2) : SubSeq(text, i, i + 2) = Fence}
      open == CHOOSE i \in fences : \A k \in fences : i <= k
      tagged == /\ open + 6 <= Len(text)
                /\ SubSeq(text, open + 3, open + 6) = <<"j", "s", "o", "n">>
      inner == IF tagged THEN open + 7 ELSE open + 3
      body == CHOOSE i \in inner..(Len(text) + 1) :
                /\ \A k \in inner..(i - 1) : IsSpace(text[k])
                /\ i > Len(text) \/ ~IsSpace(text[i])
      closers == {i \in fences : i >= body}
      close == CHOOSE i \in closers : \A k \in closers : i <= k
  IN IF fences = {} THEN [found |-> FALSE, body |-> <<>>]
     ELSE IF closers = {} THEN [found |-> FALSE, body |-> <<>>]
     ELSE [found |-> TRUE, body |-> SubSeq(text, body, close - 1)]

\* C15: extractAndParse hands to parseWithFallback the object found by the
\* direct attempt on the trimmed text; when that attempt finds nothing, the
\* object found inside the first fenced code block; when neither finds one,
\* and only then, it fails with the extraction error, which carries the first
\* 500 characters of the trimmed text at most.
C15_ExtractionOrder ==
  output.op = "extractAndParse" =>
    LET trimmed == trim(input)
        direct == extractFirstJsonObject(trimmed)
        block == FirstBlock(trimmed)
        inBlock == IF block.found THEN extractFirstJsonObject(block.body) ELSE NotFound
        isExtractionError ==
          ~output.res.ok /\ output.res.error = "Could not extract JSON object from response"
    IN /\ direct # NotFound => output.res = parseWithFallback(direct)
       /\ (direct = NotFound /\ inBlock # NotFound) => output.res = parseWithFallback(inBlock)
       /\ isExtractionError <=> (direct = NotFound /\ inBlock = NotFound)
       /\ isExtractionError =>
            /\ Len(output.res.detail) <= 500
            /\ \A i \in DOMAIN output.res.detail : output.res.detail[i] = trimmed[i]
            /\ Len(output.res.detail) = Len(trimmed) \/ Len(output.res.detail) = 500

\* extractAndParse has been applied to a text whose direct attempt finds
\* nothing and whose fenced code block holds an object
C15_WitnessBlock ==
  /\ output.op = "extractAndParse"
  /\ output.res.ok
  /\ extractFirstJsonObject(trim(input)) = NotFound

\* extractAndParse has been applied to a text with an object before the fence
\* and another one inside it
C15_WitnessBoth ==
  /\ output.op = "extractAndParse"
  /\ extractFirstJsonObject(trim(input)) = Tx_plain
  /\ FirstBlock(trim(input)).found
  /\ extractFirstJsonObject(FirstBlock(trim(input)).body) = Tx_object_b

\* extractAndParse has failed on a text longer than 500 characters
C15_WitnessLong ==
  /\ output.op = "extractAndParse"
  /\ ~output.res.ok
  /\ Len(trim(input)) > 500

\* the positions where the lines of a text begin, and the line beginning at one
LineStarts(text) == {1} \cup {i + 1 : i \in {k \in 1..Len(text) : text[k] = "\n"}}

LineAt(text, start) ==
  LET ends == {i \in start..Len(text) : text[i] = "\n"}
      end == IF ends = {} THEN Len(text) + 1 ELSE CHOOSE i \in ends : \A k \in ends : i <= k
  IN SubSeq(text, start, end - 1)

\* the lines that are not blank and are valid JSON
ValidLineStarts(text) ==
  {start \in LineStarts(text) :
     /\ trim(LineAt(text, start)) # <<>>
     /\ JSONparse(trim(LineAt(text, start))).ok}

\* C16: extractStreamJson returns the parsed values of exactly the non-blank
\* lines that are valid JSON, in the order of the lines; the other lines are
\* passed over and change nothing about the results of the valid ones.
C16_StreamTolerance ==
  output.op = "extractStreamJson" =>
    LET valid == ValidLineStarts(input)
        nth(k) == CHOOSE start \in valid : Cardinality({u \in valid : u < start}) = k - 1
    IN /\ Len(output.res) = Cardinality(valid)
       /\ \A k \in 1..Len(output.res) :
            output.res[k] = JSONparse(trim(LineAt(input, nth(k)))).value

\* extractStreamJson has been applied to three lines of which the second is
\* malformed, and returned the values of the first and the third
C16_Witness ==
  /\ output.op = "extractStreamJson"
  /\ input = Tx_plain \o <<"\n">> \o Tx_open \o <<"\n">> \o Tx_object_b
  /\ output.res = <<JObj(<<[k |-> <<"a">>, v |-> JNum(<<"1">>)]>>),
                    JObj(<<[k |-> <<"b">>, v |-> JNum(<<"2">>)]>>)>>

\* a step is a call of clean by the caller
IsCall == nCalls' = nCalls + 1

\* C17: a call of clean that returns an object for a node remembers it under
\* the identity of the node; what is remembered stays; and a call with a node
\* that was cleaned before returns the very object remembered for it, without
\* building or changing any node and without touching the cache.
C17_IdentityCache ==
  [][/\ (IsCall /\ IsObj(last'.arg) /\ ~last'.threw) =>
          (last'.arg \in DOMAIN cache' /\ cache'[last'.arg] = last'.res)
     /\ \A node \in DOMAIN cache : node \in DOMAIN cache' /\ cache'[node] = cache[node]
     /\ (IsCall /\ last'.arg \in DOMAIN cache) =>
          /\ ~last'.threw
          /\ last'.res = cache[last'.arg]
          /\ heap' = heap
          /\ cache' = cache]_vars

\* clean has been called twice by the caller with the same node, which is not
\* part of any other schema, and returned the same object as the first time
C17_Witness ==
  /\ nCalls = 2
  /\ IsObj(last.arg)
  /\ ~last.threw
  /\ last.arg \in DOMAIN preCache
  /\ \A a \in DOMAIN pre : last.arg \notin ChildSlots(pre[a])
  /\ last.res = preCache[last.arg]
  /\ Has(pre[last.arg], "properties")

\* the names whose presence means native structured output
StructuredNames ==
  {<<"o", "p", "e", "n", "a", "i">>, <<"c", "l", "a", "u", "d", "e">>, <<"g", "p", "t", "-">>}

\* the text contains the name when case is disregarded
ContainsFolded(text, name) ==
  \E at \in 0..(Len(text) - Len(name)) :
    \A k \in 1..Len(name) : LowerChar(text[at + k]) = name[k]

\* C18: supportsStructuredOutputs is true exactly when the identifier is a
\* string that contains openai, claude or gpt- in any case; it is false for an
\* empty string and for anything that is not a string; and the identifier with
\* the prefix cortex/ put before it gets the same answer.
C18_StructuredSupport ==
  output.op = "supportsStructuredOutputs" =>
    /\ output.res =
         (/\ input.t = "string"
          /\ \E name \in StructuredNames : ContainsFolded(input.s, name))
    /\ (input.t # "string" \/ input.s = <<>>) => output.res = FALSE
    /\ input.t = "string" =>
         output.res = supportsStructuredOutputs(JStr(CortexPrefix \o input.s))
    /\ (input.t = "string" /\ StartsWith(input.s, CortexPrefix)) =>
         output.res = supportsStructuredOutputs(JStr(SubSeq(input.s, 8, Len(input.s))))

\* supportsStructuredOutputs has answered true for an identifier with the
\* prefix whose name is not written in lower case
C18_Witness ==
  /\ output.op = "supportsStructuredOutputs"
  /\ input.t = "string"
  /\ StartsWith(input.s, CortexPrefix)
  /\ toLowerCase(input.s) # input.s
  /\ ~supportsStructuredOutputs_CaseSensitive(input)
  /\ output.res = TRUE

\* C19: normalizeModelId returns what is not a string, and the empty string,
\* as it is; of a string it returns the lower-case form of what follows one
\* leading cortex/, or of the whole string where it does not begin with
\* cortex/.
C19_Normalization ==
  output.op = "normalizeModelId" =>
    IF input.t # "string" \/ input.s = <<>> THEN output.res = input
    ELSE LET skipped == IF StartsWith(input.s, CortexPrefix) THEN 7 ELSE 0
         IN /\ output.res.t = "string"
            /\ Len(output.res.s) = Len(input.s) - skipped
            /\ \A i \in 1..Len(output.res.s) : output.res.s[i] = LowerChar(input.s[i + skipped])

\* normalizeModelId has been applied to an identifier that begins with the
\* prefix twice and has capitals after it
C19_Witness ==
  /\ output.op = "normalizeModelId"
  /\ input.t = "string"
  /\ StartsWith(input.s, CortexPrefix \o CortexPrefix)
  /\ StartsWith(output.res.s, CortexPrefix)
  /\ output.res.s # SubSeq(input.s, 8, Len(input.s))

\* normalizeModelId has been applied to something that is not a string
C19_WitnessNonString ==
  /\ output.op = "normalizeModelId"
  /\ input.t # "string"

ModelMaximum == getModelMaxTokens(input.modelId, CortexProvider, input.supportedModels)

IsCmCall(op) == cm'.ops = cm.ops + 1 /\ cm'.event.op = op

OneHour == 60 * 60 * 1000

\* C22: CLI availability checks are cached with a 1-hour TTL: a validateAuth
\* call that does not skip validation and finds a completed check reuses it
\* (runs no CLI) while the check is at most one hour old, and runs the CLI
\* again once the check is older than one hour.
C22_CliCheckExpires ==
  [][(/\ IsCmCall("validateAuth")
      /\ ~Skips(cm, cm'.event.params)
      /\ cm.cliChecked)
       => IF cm.now - cm.checkedAt <= OneHour
            THEN cm'.cliRuns = cm.cliRuns
            ELSE cm'.cliRuns = cm.cliRuns + 1]_vars

\* C23: outside the test environment and without skipValidation,
\* validateAuthSync never runs the CLI; it reports invalid with the error
\* CLI has not been checked yet exactly when no CLI check completed since
\* start-up or since the last clearValidationCache, and otherwise answers
\* from the cached status: not installed exactly when the completed check
\* found no CLI.
C23_SyncValidation ==
  [][(IsCmCall("validateAuthSync") /\ ~Skips(cm, cm'.event.params))
       => /\ cm'.cliRuns = cm.cliRuns
          /\ cm'.pending = cm.pending
          /\ cm'.result.op = "validateAuthSync"
          /\ <<cm'.cliChecked, cm'.cliAvailable, cm'.cliVersion>>
               = <<cm.cliChecked, cm.cliAvailable, cm.cliVersion>>
          /\ IF ~cm.completedSinceClear
               THEN /\ ~cm'.result.valid
                    /\ cm'.result.error = "CLI has not been checked yet"
               ELSE /\ cm'.result.error # "CLI has not been checked yet"
                    /\ cm.cliAvailable \in {"yes", "no"}
                    /\ (cm'.result.error = "Cortex Code CLI is not installed")
                         <=> (cm.cliAvailable = "no")
                    /\ cm'.result.valid => cm.cliAvailable = "yes"]_vars

\* a check completed, the cache was cleared, and validateAuthSync then said
\* that the CLI has not been checked
C23_Witness ==
  /\ cm.event.op = "validateAuthSync"
  /\ cm.result.error = "CLI has not been checked yet"
  /\ cm.cliRuns = 1
  /\ cm.pending = {}

\* validateAuthSync answered valid from a completed check
C23_WitnessCached ==
  /\ cm.event.op = "validateAuthSync"
  /\ cm.result.valid
  /\ ~cm.result.skipped
  /\ cm.cliRuns = 1

\* C30: getConnection serves a connection without reading the files only
\* from an entry less than 5 minutes old, every entry passed
\* validateConnection when it was stored, a missing or invalid connection
\* is never stored, and an entry of 5 minutes or more, or no entry (as after
\* clearConnectionCache), makes it read the files again and validate what
\* it finds.
C30_ConnectionCache ==
  [][/\ \A n \in DOMAIN cm'.connectionCache :
          /\ cm'.connectionCache[n].connection.complete
          /\ cm'.connectionCache[n].connection.name = n
          /\ cm'.connectionCache[n].timestamp <= cm'.now
     /\ IsCmCall("clearConnectionCache") => cm'.connectionCache = <<>>
     /\ IsCmCall("getConnection") =>
          LET name == cm'.event.params.connection
              fresh == /\ name \in DOMAIN cm.connectionCache
                       /\ cm.now - cm.connectionCache[name].timestamp < CACHE_TTL
              found == cm'.result.connection # NullConnection.name
          IN /\ fresh => /\ cm'.discoveries = cm.discoveries
                         /\ cm'.validations = cm.validations
                         /\ cm'.connectionCache = cm.connectionCache
                         /\ cm'.result.connection = name
             /\ ~fresh => /\ cm'.discoveries = cm.discoveries + 1
                          /\ cm'.validations =
                               cm.validations + (IF cm.files[name] = "missing" THEN 0 ELSE 1)
                          /\ found <=> cm.files[name] = "complete"
                          /\ cm'.result.threw <=> cm.files[name] = "incomplete"
                          /\ IF found
                               THEN /\ name \in DOMAIN cm'.connectionCache
                                    /\ cm'.connectionCache[name].timestamp = cm.now
                               ELSE cm'.connectionCache = cm.connectionCache]_vars

\* getConnection read the files again for an entry that had grown old
C30_Witness ==
  /\ cm.event.op = "getConnection"
  /\ cm.discoveries = 2
  /\ cm.validations = 2
  /\ cm.now >= CACHE_TTL
  /\ \E n \in DOMAIN cm.connectionCache : cm.connectionCache[n].timestamp = cm.now

\* getConnection served an entry one millisecond before the end of its life
C30_WitnessServed ==
  /\ cm.event.op = "getConnection"
  /\ cm.discoveries = 1
  /\ cm.ops = 2
  /\ cm.now = CACHE_TTL - 1
  /\ cm.result.connection # NullConnection.name

\* ------------------------------------------------- the cache as a memo
\* the last call, made on the same heap with an empty cache
Uncached == removeUnsupportedFeatures(variant, Ret(pre, <<>>, FALSE, NullV), last.arg)

\* C24: the cache is a pure memoization: a call on a schema returns a result
\* deep-equal to the one it returns with an empty cache, whatever earlier
\* calls left in the cache, also where a node of the schema was cleaned
\* before on its own or as a property of another object.
C24_PureMemoization ==
  (nCalls > 0 /\ IsObj(last.arg)) =>
    \E fresh \in {Uncached} :
      /\ fresh.threw = last.threw
      /\ ~last.threw => Deep(heap, last.res) = Deep(fresh.heap, fresh.res)

\* --------------------------------------------- the required of an object
\* the last call was made on an object node with properties, found no
\* result in the cache, and returned
RecomputedRequired ==
  /\ Returned
  /\ last.arg \notin DOMAIN preCache
  /\ IsType(pre[last.arg], "object")
  /\ Has(pre[last.arg], "properties")

\* the keys whose cleaned child carried the marker when the loop over the
\* properties of the last call's argument looked at it
OptionalSet ==
  CleanProps(variant, Ret(pre, preCache, FALSE, NullV), pre[last.arg]["properties"],
             1, <<>>, {}).res.opt

\* C25: the required of a cleaned object node with properties is, where the
\* input required is absent or empty, all property keys minus the keys
\* whose cleaned child was marked optional, and otherwise the input list
\* filtered, in its order, to the keys that exist in properties and were
\* not marked optional.
C25_RequiredRecomputed ==
  RecomputedRequired =>
    \E n \in {pre[last.arg]} : \E optional \in {OptionalSet} :
      /\ Has(heap[last.res], "required")
      /\ heap[last.res]["required"] =
           IF ~Has(n, "required") \/ Len(n["required"]) = 0
             THEN SelectSeq(Keys(n["properties"]), LAMBDA k : k \notin optional)
             ELSE SelectSeq(n["required"],
                            LAMBDA k : k \in PropKeys(n) /\ k \notin optional)

\* ---------------------------------------- constraints in the description
\* the suffix built from the constraints of the last call's argument
ConstraintSuffix == buildConstraintDescription(variant, pre[last.arg])

\* C26: a node with at least one constraint that produces a clause is
\* cleaned to a node whose description contains the parenthesized suffix,
\* also where the node had no description: the description is then the
\* suffix alone, starting with a space.
C26_ConstraintPromoted ==
  (Returned /\ last.arg \notin DOMAIN preCache /\ Len(ConstraintSuffix) > 0) =>
    /\ Has(heap[last.res], "description")
    /\ Includes(heap[last.res]["description"], ConstraintSuffix)
    /\ ~Has(pre[last.arg], "description") => heap[last.res]["description"] = ConstraintSuffix

\* --------------------------------------------------------- termination
\* C27: cleaning terminates for every finite schema graph, also where nodes
\* are shared or a node is reachable from itself: a call that has started
\* returns its result, and the recursion never exhausts the stack.
C27_Terminates ==
  /\ [](walk.pc # "RangeError")
  /\ (walk.pc = "running") ~> (walk.pc = "returned")

\* ------------------------------------------------ what is retried
\* the step is an execution of the CLI that failed
ExecutionFailed == cli.pc = "executing" /\ Len(cli'.failures) = Len(cli.failures) + 1

\* what the claim calls retryable: a timeout, a connection error, or an
\* API-call error of a process that exited with 124 or 137
ClassifiedRetryable(outcome) ==
  \/ outcome.kind = "timeout"
  \/ /\ outcome.kind = "close"
     /\ IF outcome.stderr # <<>> /\ outcome.exitCode # 0
          THEN \/ parseErrorFromStderr(outcome.stderr) = "connection"
               \/ /\ parseErrorFromStderr(outcome.stderr) \notin {"authentication", "connection"}
                  /\ outcome.exitCode \in {124, 137}
          ELSE outcome.exitCode \in {124, 137}

C28_WitnessRetried ==
  /\ cli.executions = 2
  /\ cli.failures[1].code = "API_CALL_ERROR"
  /\ cli.outcome.exitCode = 137
  /\ Len(cli.failures) = 1

\* ------------------------------------------------ settling exactly once
\* C29: a call of executeCortexCli settles exactly once in every order of
\* the timeout, close and error: the first callback settles the promise and
\* no later one changes it. A process that closes before the timeout
\* elapses cancels the timer, gets no SIGTERM, and resolves the promise
\* with the collected stdout, stderr and exit code; a timeout that elapses
\* first sends SIGTERM and rejects with a timeout error, whatever closes
\* later.
C29_SettlesOnce ==
  [][/\ proc.state # "pending" =>
          (proc'.state = proc.state /\ proc'.value = proc.value)
     /\ proc'.events > 0 => proc'.state # "pending"
     /\ proc'.events = 0 => proc'.state = "pending"
     /\ (proc'.spawned /\ proc'.first = "close") =>
          /\ proc'.timer \in {"none", "cleared"}
          /\ proc'.kills = 0
          /\ proc'.state = "resolved"
          /\ proc'.value.kind = "result"
          /\ proc'.events > proc.events =>
               /\ proc'.value.stdout = proc.stdout
               /\ proc'.value.stderr = proc.stderr
               /\ proc'.value.exitCode \in {0, 1}
     /\ proc'.first = "timeout" =>
          /\ proc'.timeout > 0
          /\ proc'.kills = 1
          /\ proc'.state = "rejected"
          /\ proc'.value.kind = "TIMEOUT_ERROR"
          /\ proc'.value.timeoutMs = proc'.timeout
     /\ proc'.kills > 0 => proc'.first = "timeout"]_vars

\* the timeout elapsed first, the process closed afterwards, and the
\* promise is still rejected with the timeout error
C29_Witness ==
  /\ proc.first = "timeout"
  /\ proc.closed
  /\ proc.events = 2
  /\ proc.state = "rejected"
  /\ proc.value.kind = "TIMEOUT_ERROR"

\* the process closed first, with output collected, under an armed timer
C29_WitnessClosed ==
  /\ proc.first = "close"
  /\ proc.timeout > 0
  /\ proc.timer = "cleared"
  /\ proc.state = "resolved"
  /\ proc.value.stdout # <<>>

====
